---- MODULE Spec2Model ----
(***************************************************************************)
(* CatStream: the vote aggregator (cat_stream/bili_interact_reader.py),    *)
(* the orchestration loop (cat_stream/stream_helper.py) and the detection  *)
(* worker (cat_stream/detection_processor.py) as state machines.           *)
(*                                                                         *)
(* Python dicts are functions whose DOMAIN is the set of keys; a dict      *)
(* object lives in a heap cell, so that two names for one dict (aliasing)  *)
(* are visible.  Strings that the code inspects character by character     *)
(* (the chat message) are sequences of one-character strings.              *)
(***************************************************************************)
EXTENDS Integers, Sequences, FiniteSets, TLC

(***************************************************************************)
(* Bounds of the model.                                                    *)
(***************************************************************************)
\* capacity of the interact queue (interact_queue_len, 100 by default)
interact_queue_len == 2

\* capacities of the detection processor's queues (the defaults)
input_queue_len == 1

output_queue_len == 1

\* failures after which the worker blacklists a source (rtsp_tolerance)
rtsp_tolerance == 3

\* the intervals of the orchestration loop, in units of its clock
\* (vote_interval and detect_interval, 10 seconds by default)
vote_interval == 1

detect_interval == 1

\* the clock of the orchestration loop starts at 1; the scenario is followed
\* to the end of its second vote window, the loop with both sources of
\* votes to the end of its first
MaxTime == 1 + 2 * vote_interval

FirstWindow == 1 + vote_interval

(***************************************************************************)
(* Chat events: the fields BiliInteractReader._load_new_msg reads.         *)
(***************************************************************************)
\* the medal name the code compares with (the literal at line 110)
Designation == "xiao_cai_ji"

Users == {"U1", "U2", "U3"}

\* the configured super users (super_users of the reader's configuration)
super_users == {"U3"}

\* the medal a user's events carry: U1 wears another medal of level 3,
\* U2 the designated medal at level 2, U3 none
MedalNameOf(u) ==
    IF u = "U1" THEN "other" ELSE IF u = "U2" THEN Designation ELSE ""

MedalLevelOf(u) ==
    IF u = "U1" THEN 3 ELSE IF u = "U2" THEN 2 ELSE 0

\* chat messages, as sequences of characters: votes for a and b, in both
\* cases and padded, and two messages that are no vote
VoteMessages == { <<"a">>, <<"A", " ">>, <<"b">> }

OtherMessages == { <<"a", "b">>, <<"1">> }

\* the voters that also send messages that are no vote
Chatters == {"U1"}

EventOf(u, m) ==
    [uid |-> u, msg |-> m,
     medal_name |-> MedalNameOf(u), medal_level |-> MedalLevelOf(u)]

Events ==
    { EventOf(u, m) : u \in Users, m \in VoteMessages }
    \cup { EventOf(u, m) : u \in Chatters, m \in OtherMessages }

(***************************************************************************)
(* str.strip(), str.lower(), str.isalpha() on character sequences.         *)
(***************************************************************************)
IsSpace(c) == c = " "

LowerChar(c) == IF c = "A" THEN "a" ELSE IF c = "B" THEN "b" ELSE c

IsAlphaChar(c) == c \in {"a", "b", "A", "B"}

RECURSIVE LStrip(_)
LStrip(s) ==
    IF s # <<>> /\ IsSpace(Head(s)) THEN LStrip(Tail(s)) ELSE s

RECURSIVE RStrip(_)
RStrip(s) ==
    IF s # <<>> /\ IsSpace(s[Len(s)])
    THEN RStrip(SubSeq(s, 1, Len(s) - 1))
    ELSE s

Strip(s) == RStrip(LStrip(s))

Lower(s) == [i \in 1..Len(s) |-> LowerChar(s[i])]

IsAlpha(s) == Len(s) >= 1 /\ \A i \in 1..Len(s) : IsAlphaChar(s[i])

\* clean_msg = danmu_msg.strip().lower()
CleanMsg(m) == Lower(Strip(m))

\* a test that forgets isalpha()
IsSingleLetterAnyChar(clean_msg) == Len(clean_msg) = 1

\* the test at line 100: a single letter
IsSingleLetter(clean_msg) == Len(clean_msg) = 1 /\ IsAlpha(clean_msg)

(***************************************************************************)
(* Dicts.                                                                  *)
(***************************************************************************)
EmptyDict == [k \in {} |-> 0]

DictSet(d, k, v) ==
    [x \in (DOMAIN d) \cup {k} |-> IF x = k THEN v ELSE d[x]]

DictGet(d, k, default) == IF k \in DOMAIN d THEN d[k] ELSE default

RECURSIVE SumOver(_, _)
SumOver(d, keys) ==
    IF keys = {} THEN 0
    ELSE LET k == CHOOSE x \in keys : TRUE
         IN  d[k] + SumOver(d, keys \ {k})

DictSum(d) == SumOver(d, DOMAIN d)

(***************************************************************************)
(* The vote aggregator: BiliInteractReader.                                *)
(***************************************************************************)
\* a weight without the bonus of the super users
NVotesNoSuper(e) ==
    1 + (IF e.medal_name = Designation THEN e.medal_level ELSE 0)

\* a weight that adds the medal level whatever the medal's name
NVotesAnyMedal(e) ==
    1 + e.medal_level + (IF e.uid \in super_users THEN 10 ELSE 0)

\* n_votes of one accepted event (lines 108-115)
NVotes(e) ==
    1 + (IF e.medal_name = Designation THEN e.medal_level ELSE 0)
      + (IF e.uid \in super_users THEN 10 ELSE 0)

\* an iteration that never looks at voted_users
RecordEventNoDedup(st, e) ==
    LET clean_msg == CleanMsg(e.msg)
    IN  IF ~IsSingleLetter(clean_msg) THEN st
        ELSE LET key == clean_msg[1]
                 old == IF key \in DOMAIN st.votes THEN st.votes[key] ELSE 0
             IN  [votes |-> [x \in (DOMAIN st.votes) \cup {key} |->
                                IF x = key THEN old + NVotes(e) ELSE st.votes[x]],
                  voted_users |-> st.voted_users \cup {e.uid}]

\* one iteration of the loop of _load_new_msg (lines 96-116) on the vote
\* cache st = [votes |-> dict, voted_users |-> set]
RecordEvent(st, e) ==
    LET clean_msg == CleanMsg(e.msg)
    IN  IF ~IsSingleLetter(clean_msg) THEN st
        ELSE LET key == clean_msg[1]
                 v0  == IF key \in DOMAIN st.votes THEN st.votes
                        ELSE DictSet(st.votes, key, 0)
             IN  IF e.uid \in st.voted_users
                 THEN [st EXCEPT !.votes = v0]
                 ELSE [votes |-> DictSet(v0, key, v0[key] + NVotes(e)),
                       voted_users |-> st.voted_users \cup {e.uid}]

\* _load_new_msg: the n_data = qsize() events queued at the call, in order
RECURSIVE LoadNewMsg(_, _)
LoadNewMsg(st, q) ==
    IF q = <<>> THEN st ELSE LoadNewMsg(RecordEvent(st, Head(q)), Tail(q))

(***************************************************************************)
(* The configured scenes: obs_scenes, in the order of the configuration.   *)
(***************************************************************************)
obs_scenes ==
    << [name |-> "B", vote_key |-> "b"], [name |-> "A", vote_key |-> "a"] >>

Scenes == { obs_scenes[i].name : i \in 1..Len(obs_scenes) }

Range(q) == { q[i] : i \in 1..Len(q) }

\* the keys of obs_scenes that are in S, in the order of the configuration
RECURSIVE KeysIn(_, _)
KeysIn(cfg, S) ==
    IF cfg = <<>> THEN <<>>
    ELSE (IF Head(cfg).name \in S THEN <<Head(cfg).name>> ELSE <<>>)
         \o KeysIn(Tail(cfg), S)

(***************************************************************************)
(* mthread_utils.force_put on a queue of capacity cap.                     *)
(***************************************************************************)
ForcePut(q, cap, data) ==
    IF Len(q) >= cap THEN Append(Tail(q), data) ELSE Append(q, data)

\* the steps of force_put, each atomic under the queue's mutex:
\* a full() that never reports a full queue
QueueFullNever(q, cap) == FALSE

\* queue.full() (line 13)
QueueFull(q, cap) == Len(q) >= cap

\* a get_nowait that leaves the item in the queue
GetNowaitKeeps(q) == q

\* queue.get_nowait() with its Empty caught (lines 14-19)
GetNowait(q) == IF q = <<>> THEN q ELSE Tail(q)

\* queue.put(data) (line 20) can complete when the queue has room
CanPut(q, cap) == Len(q) < cap

(***************************************************************************)
(* The detection worker: RTSPDetectionThread._run_one_loop.                *)
(* A job is the sequence of its source keys; ok is the set of sources      *)
(* whose capture returns a frame, seen those where a cat is detected.      *)
(***************************************************************************)
\* a worker that keeps reading the sources of its blacklist
ProcessSourceRetries(st, key, ok, seen) ==
    LET c0 == IF key \in DOMAIN st.count THEN st.count
              ELSE DictSet(st.count, key, 0)
    IN  IF key \notin ok
        THEN [st EXCEPT !.count = DictSet(c0, key, c0[key] + 1),
                        !.backlist = IF c0[key] + 1 >= rtsp_tolerance
                                        /\ key \notin Range(st.backlist)
                                     THEN Append(st.backlist, key)
                                     ELSE st.backlist]
        ELSE [st EXCEPT !.count = c0,
                        !.results = DictSet(st.results, key, key \in seen)]

\* a body that reads a source whether it is blacklisted or not
ProcessSourceNoSkip(st, key, ok, seen) ==
    LET c0 == IF key \in DOMAIN st.count THEN st.count
              ELSE DictSet(st.count, key, 0)
    IN  IF key \notin ok
        THEN [st EXCEPT !.count = DictSet(c0, key, c0[key] + 1),
                        !.backlist = IF c0[key] + 1 >= rtsp_tolerance
                                     THEN Append(st.backlist, key)
                                     ELSE st.backlist]
        ELSE [st EXCEPT !.count = c0,
                        !.results = DictSet(st.results, key, key \in seen)]

\* a body in which a failed capture fails the job for the sources before it
ProcessSourceFailClears(st, key, ok, seen) ==
    IF key \in Range(st.backlist) THEN st
    ELSE LET c0 == IF key \in DOMAIN st.count THEN st.count
                   ELSE DictSet(st.count, key, 0)
         IN  IF key \notin ok
             THEN [st EXCEPT !.count = DictSet(c0, key, c0[key] + 1),
                             !.backlist = IF c0[key] + 1 >= rtsp_tolerance
                                          THEN Append(st.backlist, key)
                                          ELSE st.backlist,
                             !.results = EmptyDict]
             ELSE [st EXCEPT !.count = c0,
                             !.results = DictSet(st.results, key, key \in seen)]

\* a body that reports a failed source as one without a cat
ProcessSourceReportsFailed(st, key, ok, seen) ==
    IF key \in Range(st.backlist) THEN st
    ELSE LET c0 == IF key \in DOMAIN st.count THEN st.count
                   ELSE DictSet(st.count, key, 0)
         IN  IF key \notin ok
             THEN LET c1 == DictSet(c0, key, c0[key] + 1)
                  IN  [st EXCEPT !.count = c1,
                                 !.backlist = IF c1[key] >= rtsp_tolerance
                                              THEN Append(st.backlist, key)
                                              ELSE st.backlist,
                                 !.results = DictSet(st.results, key, FALSE)]
             ELSE [st EXCEPT !.count = c0,
                             !.results = DictSet(st.results, key, key \in seen)]

\* the body of the loop over rtsp_urls.items() (lines 190-214)
ProcessSource(st, key, ok, seen) ==
    IF key \in Range(st.backlist) THEN st
    ELSE LET c0 == IF key \in DOMAIN st.count THEN st.count
                   ELSE DictSet(st.count, key, 0)
         IN  IF key \notin ok
             THEN LET c1 == DictSet(c0, key, c0[key] + 1)
                  IN  [st EXCEPT !.count = c1,
                                 !.backlist = IF c1[key] >= rtsp_tolerance
                                              THEN Append(st.backlist, key)
                                              ELSE st.backlist]
             ELSE [st EXCEPT !.count = c0,
                             !.results = DictSet(st.results, key, key \in seen)]

RECURSIVE ProcessJob(_, _, _, _)
ProcessJob(st, job, ok, seen) ==
    IF job = <<>> THEN st
    ELSE ProcessJob(ProcessSource(st, Head(job), ok, seen), Tail(job), ok, seen)

(***************************************************************************)
(* The orchestration loop: StreamHelper.                                   *)
(* An optional dict is None (no dict) or Some(d).                          *)
(***************************************************************************)
None == <<>>

Some(d) == <<d>>

\* the order sorted() puts the vote keys in
Alphabet == <<"a", "b">>

VoteKeys == { obs_scenes[i].vote_key : i \in 1..Len(obs_scenes) }

\* sorted(list(self.vote_scene_mapping.keys()))
SortedVoteKeys == SelectSeq(Alphabet, LAMBDA c : c \in VoteKeys)

\* self.vote_scene_mapping[vote_key]
SceneOfKey(k) ==
    obs_scenes[CHOOSE i \in 1..Len(obs_scenes) : obs_scenes[i].vote_key = k].name

\* self.obs_scenes[scene_name]['vote_key']
KeyOfScene(n) ==
    obs_scenes[CHOOSE i \in 1..Len(obs_scenes) : obs_scenes[i].name = n].vote_key

\* the votes of the detection: 3 for the vote key of every scene with a cat
DetectVotes(detect_results) ==
    [k \in { KeyOfScene(n) : n \in { x \in DOMAIN detect_results :
                                        detect_results[x] } } |-> 3]

\* sum(table_row[1:]): the votes of all sources for a vote key
RECURSIVE VoteSum(_, _)
VoteSum(msrc, key) ==
    IF msrc = <<>> THEN 0
    ELSE DictGet(Head(msrc), key, 0) + VoteSum(Tail(msrc), key)

\* a loop that lets a later key win a tie
RECURSIVE ConvertLoopLastWins(_, _, _, _, _)
ConvertLoopLastWins(keys, msrc, latest, max_vote_number, max_vote_scene_name) ==
    IF keys = <<>> THEN max_vote_scene_name
    ELSE LET scene_name == SceneOfKey(Head(keys))
             vote_sum   == VoteSum(msrc, KeyOfScene(scene_name))
         IN  IF scene_name \notin latest
             THEN ConvertLoopLastWins(Tail(keys), msrc, latest,
                                      max_vote_number, max_vote_scene_name)
             ELSE IF vote_sum >= max_vote_number /\ vote_sum > 0
             THEN ConvertLoopLastWins(Tail(keys), msrc, latest, vote_sum, scene_name)
             ELSE ConvertLoopLastWins(Tail(keys), msrc, latest,
                                      max_vote_number, max_vote_scene_name)

\* the loop of _convert_vote_results over the sorted vote keys (250-269)
RECURSIVE ConvertLoop(_, _, _, _, _)
ConvertLoop(keys, msrc, latest, max_vote_number, max_vote_scene_name) ==
    IF keys = <<>> THEN max_vote_scene_name
    ELSE LET scene_name == SceneOfKey(Head(keys))
             vote_sum   == VoteSum(msrc, KeyOfScene(scene_name))
         IN  IF scene_name \notin latest
             THEN ConvertLoop(Tail(keys), msrc, latest,
                              max_vote_number, max_vote_scene_name)
             ELSE IF vote_sum > max_vote_number
             THEN ConvertLoop(Tail(keys), msrc, latest, vote_sum, scene_name)
             ELSE ConvertLoop(Tail(keys), msrc, latest,
                              max_vote_number, max_vote_scene_name)

\* the vote keys in the order the scenes are configured in
ConfiguredVoteKeys == [i \in 1..Len(obs_scenes) |-> obs_scenes[i].vote_key]

\* a conversion that enumerates the vote keys unsorted
ConvertVoteResultsUnsorted(msrc, latest) ==
    ConvertLoop(ConfiguredVoteKeys, msrc, latest, 0, "None")

\* _convert_vote_results: the scene to switch to, "None" without one
ConvertVoteResults(msrc, latest) ==
    ConvertLoop(SortedVoteKeys, msrc, latest, 0, "None")

(***************************************************************************)
(* The frame codec: _BliveProto.                                           *)
(***************************************************************************)
\* self.headerLen of a new _BliveProto (line 228)
headerLen == 16

\* self.maxBody (line 233)
maxBody == 2048

\* a str is a sequence of characters, bytes are a sequence of 0..255; the
\* characters of the model and their UTF-8 encodings (str.encode(), line 242):
\* ASCII letters and signs of one byte, e-acute of two, the CJK zhong of three
Utf8(c) ==
    CASE c = "a" -> <<97>>
      [] c = "b" -> <<98>>
      [] c = "D" -> <<68>>
      [] c = "G" -> <<71>>
      [] c = "0" -> <<48>>
      [] c = "1" -> <<49>>
      [] c = "e_acute" -> <<195, 169>>
      [] c = "zhong" -> <<228, 184, 173>>

\* (the encoding of a str is the concatenation of those of its halves)
RECURSIVE Encode(_)
Encode(str) ==
    IF str = <<>> THEN <<>>
    ELSE IF Len(str) = 1 THEN Utf8(str[1])
    ELSE LET half == Len(str) \div 2
         IN  Encode(SubSeq(str, 1, half))
                 \o Encode(SubSeq(str, half + 1, Len(str)))

\* struct.pack('>i', n) for n in the range of a signed 32-bit integer
\* (two's complement, big-endian: the quotients round down)
PackInt(n) ==
    << (n \div 16777216) % 256, (n \div 65536) % 256, (n \div 256) % 256,
       n % 256 >>

\* struct.pack('>h', n) for n in the range of a signed 16-bit integer
PackShort(n) == << (n \div 256) % 256, n % 256 >>

\* struct.unpack('>i', b)[0]
UnpackInt(b) ==
    LET top == IF b[1] >= 128 THEN b[1] - 256 ELSE b[1]
    IN  top * 16777216 + b[2] * 65536 + b[3] * 256 + b[4]

\* struct.unpack('>h', b)[0]
UnpackShort(b) ==
    LET top == IF b[1] >= 128 THEN b[1] - 256 ELSE b[1]
    IN  top * 256 + b[2]

\* buf[i:j] of Python for 0 <= i and 0 <= j
Slice(buf, i, j) ==
    LET hi == IF j < Len(buf) THEN j ELSE Len(buf)
    IN  IF i >= hi THEN <<>> ELSE SubSeq(buf, i + 1, hi)

\* _BliveProto() (lines 226-233); the body is a str
NewProto ==
    [packetLen |-> 0, headerLen |-> headerLen, ver |-> 0, op |-> 0,
     seq |-> 0, body |-> [type |-> "str", val |-> <<>>], maxBody |-> maxBody]

\* the packet length that pack computes (line 236): len() of a str counts
\* its characters
PacketLenOf(obj) == Len(obj.body.val) + obj.headerLen

\* pack() (lines 235-243): the buffer it returns
Pack(obj) ==
    PackInt(PacketLenOf(obj)) \o PackShort(obj.headerLen)
        \o PackShort(obj.ver) \o PackInt(obj.op) \o PackInt(obj.seq)
        \o Encode(obj.body.val)

\* the header fields that unpack assigns (lines 249-253)
WithHeader(obj, buf) ==
    [obj EXCEPT !.packetLen = UnpackInt(Slice(buf, 0, 4)),
                !.headerLen = UnpackShort(Slice(buf, 4, 6)),
                !.ver = UnpackShort(Slice(buf, 6, 8)),
                !.op = UnpackInt(Slice(buf, 8, 12)),
                !.seq = UnpackInt(Slice(buf, 12, 16))]

\* the test of line 254 on the object with its header assigned
LengthOutOfRange(obj) == obj.packetLen < 0 \/ obj.packetLen > obj.maxBody

\* unpack(buf) (lines 245-268): the object afterwards; the body becomes
\* bytes (line 262) when the two tests pass
Unpack(obj, buf) ==
    IF Len(buf) < obj.headerLen THEN obj
    ELSE LET h == WithHeader(obj, buf)
         IN  IF LengthOutOfRange(h) THEN h
             ELSE [h EXCEPT !.body =
                       [type |-> "bytes", val |-> Slice(buf, 16, h.packetLen)]]

\* what unpack returns: every path ends in a bare return
UnpackReturn(obj, buf) == "None"

\* get_operation_type() (lines 270-282)
OperationType(obj) ==
    CASE obj.op = 2 -> "OP_HEARTBEAT"
      [] obj.op = 3 -> "OP_HEARTBEAT_REPLY"
      [] obj.op = 5 -> "OP_SEND_SMS_REPLY"
      [] obj.op = 7 -> "OP_AUTH"
      [] obj.op = 8 -> "OP_AUTH_REPLY"
      [] OTHER -> "OP_UNKNOWN"

(***************************************************************************)
(* State.                                                                  *)
(***************************************************************************)
VARIABLES
    interact_queue,   \* BiliInteractReader.interact_queue: events not yet drained
    heap,             \* the dict objects: heap[o] is the content of object o
    votes,            \* self.votes: the object the reader's tally currently is
    voted_users,      \* self.voted_users
    held,             \* the object a caller got from get_vote_results (0: none)
    held_snap,        \* history: the content of that object when it was returned
    first_vote,       \* history: per voter, the first single letter drained this round
    ignored_first,    \* history: voters with a rejected message drained before any vote
    prev_voted,       \* history: the voted set that the last reset() cleared
    input_queue,      \* DetectionProcessor.input_queue: jobs not yet taken
    output_queue,     \* DetectionProcessor.output_queue: results not yet polled
    rtsp_failure_count, \* RTSPDetectionThread.rtsp_failure_count
    rtsp_backlist,    \* RTSPDetectionThread.rtsp_backlist
    fail_streak,      \* history: per source, the captures that failed in a row
    doomed,           \* history: sources that failed rtsp_tolerance jobs in a row
    last_published,   \* history: the results the worker published last
    last_captured,    \* history: what the captures of the last job delivered
    state,            \* StreamHelper.state
    now,              \* the clock: time.time()
    next_vote_time,   \* StreamHelper.next_vote_time
    next_detect_time, \* StreamHelper.next_detect_time
    last_detect_vote_results, \* StreamHelper.last_detect_vote_results
    latest_scene_names,  \* StreamHelper.latest_scene_names
    offline_scene_names, \* StreamHelper.offline_scene_names
    current_scene,    \* the mixer: the scene of the last set_current_scene
    obs_calls,        \* the mixer: the set_current_scene calls it has served
    last_tick,        \* history: what the last tick saw and did
    scen,             \* history: how far the run has followed the scenario
    switches,         \* history: the scenes switched to, in order
    tallies,          \* history: the chat tally at each vote boundary
    remembered,       \* history: the detection votes of the last tick that
                      \* received a result, None after a switch
    reused,           \* history: the last tick found no result and merged
                      \* the remembered detection votes
    w_pc,             \* the worker's place: "take" a job, or in force_put
    w_data,           \* the results the worker is publishing
    l_pc,             \* the loop's place: "idle", or in force_put
    l_data,           \* the job the loop is submitting
    sub_seq,          \* history: the jobs submitted so far
    in_tags,          \* history: the numbers of the jobs in input_queue
    taken_tag,        \* history: the number of the job the worker took last
    out_tags,         \* history: the job numbers of the results in output_queue
    delivered_tag,    \* history: the job number of the result polled last
    c_phase,          \* the codec exercise: "new", "frame", "packed" or "decoded"
    c_frame,          \* the _BliveProto that is packed
    c_buf,            \* the buffer on the wire
    c_tamper,         \* history: what happened to the buffer on the wire
    c_obj,            \* the _BliveProto that unpacks the buffer
    c_ret,            \* what unpack returned
    r_alive,          \* the receive loop has not ended in an exception
    r_pc,             \* the receive loop: "recv", or "putting" inside put
    r_ev,             \* the event that put is waiting to enqueue
    r_last,           \* history: the kind of the last buffer received
    r_late,           \* history: an event was enqueued after it waited
    r_dropped,        \* history: an event was dropped after it waited
    s_pc,             \* the session client: "start", "session", "connected",
                      \* "auth_sent", "running" or "raised"
    retry_count,      \* get_websocket_info: retry_count
    s_info,           \* what get_websocket_info returned: <<addr, authBody>>
    s_exc,            \* the exception that ended run(), or "None"
    s_sent,           \* the buffers sent on the connection, in order
    s_reply,          \* the buffer received in auth
    s_tasks,          \* the tasks run() has started
    s_log,            \* history: the responses to the start-session calls
    hb_failed,        \* history: a session heartbeat got a non-success response
    h_pc,             \* the stream helper: "new", "constructed", "raised",
                      \* "crashed", "exit", "stop_det", "join_det",
                      \* "stop_reader", "join_reader" or "returned"
    h_exc,            \* the exception that ended __init__ or start(), or "None"
    det_cfg,          \* detection_proc_cfg: "None" or "cfg"
    reader_cfg,       \* interact_reader_cfg: "None" or "cfg"
    d_exit,           \* DetectionProcessor.exit_signal is set
    w_alive,          \* the worker thread is alive
    w_checked,        \* the worker is past the signal check of its iteration
    w_idle,           \* the worker's last iteration ended with Empty
    b_exit,           \* BiliInteractReader.exit_signal is set
    b_alive,          \* the client thread is alive
    k_pc,             \* BiliInteractReader.__init__: "new", "waiting",
                      \* "constructed" or "ValueError"
    k_first,          \* the first item taken from the interact queue
    g_pc,             \* get_vote_results in a tick: "idle", "loading" (in the
                      \* loop of _load_new_msg) or "merged" (returned)
    g_n,              \* n_data, the qsize() read at the start of the call
    g_left,           \* the iterations of the loop that are left
    put_log,          \* history: the events put on the interact queue
    rec_log           \* history: the events _load_new_msg has recorded

aggVars ==
    <<interact_queue, heap, votes, voted_users, held, held_snap,
      first_vote, ignored_first, prev_voted>>

detVars ==
    <<input_queue, output_queue, rtsp_failure_count, rtsp_backlist,
      fail_streak, doomed, last_published, last_captured>>

loopVars ==
    <<state, now, next_vote_time, next_detect_time, last_detect_vote_results,
      latest_scene_names, offline_scene_names, current_scene, obs_calls,
      last_tick, scen, switches, tallies, remembered, reused>>

\* the threads' places in force_put, and the history of the two queues
qVars ==
    <<w_pc, w_data, l_pc, l_data, sub_seq, in_tags, taken_tag, out_tags,
      delivered_tag>>

\* the state of the components that the specifications of the vote loop and
\* of the detection processor leave alone
\* the exercise of the frame codec
codecVars == <<c_phase, c_frame, c_buf, c_tamper, c_obj, c_ret>>

\* the receive loop of the chat client
recvVars == <<r_alive, r_pc, r_ev, r_last, r_late, r_dropped>>

\* the session client: run, connect, get_websocket_info, auth
sessVars ==
    <<s_pc, retry_count, s_info, s_exc, s_sent, s_reply, s_tasks, s_log>>

\* the run of the session client's tasks
runVars == <<hb_failed>>

\* the stream helper: construction, start() and its way out
helpVars == <<h_pc, h_exc, det_cfg, reader_cfg>>

\* the two background threads and their exit signals
thrVars == <<d_exit, w_alive, w_checked, w_idle, b_exit, b_alive>>

\* the construction of the interact reader
ctorVars == <<k_pc, k_first>>

\* get_vote_results taken step by step, and the history of the events
drainVars == <<g_pc, g_n, g_left, put_log, rec_log>>

restVars == <<runVars, drainVars, helpVars, thrVars, ctorVars>>

extVars == <<qVars, codecVars, recvVars, sessVars, restVars>>

vars == <<aggVars, detVars, loopVars, extVars>>

ObjIds == {1, 2}

OtherObj(o) == IF o = 1 THEN 2 ELSE 1

\* the reader's vote cache as RecordEvent sees it
Cache == [votes |-> heap[votes], voted_users |-> voted_users]

(***************************************************************************)
(* History of a round, kept beside the code: which letter a voter sent     *)
(* first, and who was turned away before voting.                           *)
(***************************************************************************)
Letters == {"a", "b"}

\* the letter a message stands for, "none" when it is no vote
LetterOf(m) ==
    IF m = <<"a">> \/ m = <<"A", " ">> THEN "a"
    ELSE IF m = <<"b">> THEN "b"
    ELSE "none"

NoFirstVote == [u \in Users |-> "none"]

RECURSIVE FirstVotes(_, _)
FirstVotes(fv, q) ==
    IF q = <<>> THEN fv
    ELSE LET e == Head(q)
             l == LetterOf(e.msg)
         IN  FirstVotes(IF l # "none" /\ fv[e.uid] = "none"
                        THEN [fv EXCEPT ![e.uid] = l] ELSE fv,
                        Tail(q))

RECURSIVE IgnoredFirst(_, _, _)
IgnoredFirst(ig, fv, q) ==
    IF q = <<>> THEN ig
    ELSE LET e == Head(q)
             l == LetterOf(e.msg)
         IN  IgnoredFirst(
                 IF l = "none" /\ fv[e.uid] = "none" THEN ig \cup {e.uid} ELSE ig,
                 IF l # "none" /\ fv[e.uid] = "none"
                 THEN [fv EXCEPT ![e.uid] = l] ELSE fv,
                 Tail(q))

(***************************************************************************)
(* Operations of the aggregator.                                           *)
(***************************************************************************)
InitAgg ==
    /\ interact_queue = <<>>
    /\ heap = [o \in ObjIds |-> EmptyDict]
    /\ votes = 1
    /\ voted_users = {}
    /\ held = 0
    /\ held_snap = EmptyDict
    /\ first_vote = NoFirstVote
    /\ ignored_first = {}
    /\ prev_voted = {}

histVars == <<first_vote, ignored_first, prev_voted>>

\* the receive loop hands an event to the queue (a full queue takes nothing)
PutEvent(e) ==
    /\ Len(interact_queue) < interact_queue_len
    /\ interact_queue' = Append(interact_queue, e)
    /\ UNCHANGED <<heap, votes, voted_users, held, held_snap, histVars>>

\* reset(): self.votes = dict(); self.voted_users = set()
\* The new dict is a fresh object: it is not the one a caller still holds.
ResetObj == IF held = votes THEN OtherObj(votes) ELSE votes

\* a reset that forgets the voted set
ResetKeepsVoters ==
    /\ votes' = ResetObj
    /\ heap' = [heap EXCEPT ![ResetObj] = EmptyDict]
    /\ UNCHANGED <<voted_users, interact_queue, held, held_snap>>

Reset ==
    /\ votes' = ResetObj
    /\ heap' = [heap EXCEPT ![ResetObj] = EmptyDict]
    /\ voted_users' = {}
    /\ UNCHANGED <<interact_queue, held, held_snap>>

\* what get_vote_results hands to its caller: self.votes itself
ReturnedObj == votes

\* get_vote_results(): _load_new_msg(), then return self.votes.
\* bind: whether the caller stores the returned dict in its variable (and
\* so drops the one it held), or uses the result in place and forgets it.
GetVoteResults(bind) ==
    LET st == LoadNewMsg(Cache, interact_queue)
        h1 == [heap EXCEPT ![votes] = st.votes]
        h2 == IF bind /\ held \notin {0, votes, ReturnedObj}
              THEN [h1 EXCEPT ![held] = EmptyDict] ELSE h1
    IN  /\ interact_queue' = <<>>
        /\ heap' = h2
        /\ voted_users' = st.voted_users
        /\ held' = IF bind THEN ReturnedObj ELSE held
        /\ held_snap' = IF bind THEN h2[ReturnedObj] ELSE held_snap
        /\ UNCHANGED votes

(***************************************************************************)
(* The history variables are written only in the specification that reads  *)
(* them: a step that drains the queue extends the round's history, a reset *)
(* starts a new round.                                                     *)
(***************************************************************************)
DrainHistory ==
    /\ first_vote' = FirstVotes(first_vote, interact_queue)
    /\ ignored_first' = IgnoredFirst(ignored_first, first_vote, interact_queue)
    /\ UNCHANGED prev_voted

ResetHistory ==
    /\ first_vote' = NoFirstVote
    /\ ignored_first' = {}
    /\ UNCHANGED prev_voted

ResetHistoryPrev ==
    /\ first_vote' = NoFirstVote
    /\ ignored_first' = {}
    /\ prev_voted' = voted_users

(***************************************************************************)
(* Operations of the detection processor and its worker.                   *)
(***************************************************************************)
InitDet ==
    /\ input_queue = <<>>
    /\ output_queue = <<>>
    /\ rtsp_failure_count = EmptyDict
    /\ rtsp_backlist = <<>>
    /\ fail_streak = [s \in Scenes |-> 0]
    /\ doomed = {}
    /\ last_published = EmptyDict
    /\ last_captured = EmptyDict

NoTick ==
    [boundary |-> FALSE, scores |-> [k \in VoteKeys |-> 0], reach |-> {},
     leader |-> "None", switched |-> "None"]

\* StreamHelper.__init__ (lines 97-114); time.time() is later than the
\* 0.0 of next_detect_time
InitLoop ==
    /\ state = "INITIAL"
    /\ now = 1
    /\ next_vote_time = 0
    /\ next_detect_time = 0
    /\ last_detect_vote_results = None
    /\ latest_scene_names = Scenes
    /\ offline_scene_names = <<>>
    /\ current_scene = "None"
    /\ obs_calls = 0
    /\ last_tick = NoTick
    /\ scen = 0
    /\ switches = <<>>
    /\ tallies = <<>>
    /\ remembered = None
    /\ reused = FALSE

\* both threads outside force_put, nothing submitted yet
InitQueues ==
    /\ w_pc = "take"
    /\ w_data = EmptyDict
    /\ l_pc = "idle"
    /\ l_data = <<>>
    /\ sub_seq = 0
    /\ in_tags = <<>>
    /\ taken_tag = 0
    /\ out_tags = <<>>
    /\ delivered_tag = 0

\* a frame of the codec exercise: an operation code, a sequence id, a
\* version and a body
Repeat(c, n) == [i \in 1..n |-> c]

FrameOps == {0, 2, 5, 7, 8, -1, 2147483647}

FrameBodies ==
    { <<>>, <<"a">>, <<"a", "b">>, <<"zhong">>, <<"a", "e_acute">>,
      Repeat("a", maxBody - headerLen), Repeat("a", maxBody - headerLen + 1),
      Repeat("a", maxBody) }

FrameOf(op, seq, ver, body) ==
    [NewProto EXCEPT !.op = op, !.seq = seq, !.ver = ver,
                     !.body = [type |-> "str", val |-> body]]

InitCodec ==
    /\ c_phase = "new"
    /\ c_frame = NewProto
    /\ c_buf = <<>>
    /\ c_tamper = "none"
    /\ c_obj = NewProto
    /\ c_ret = "None"

InitRecv ==
    /\ r_alive = TRUE
    /\ r_pc = "recv"
    /\ r_ev = None
    /\ r_last = "none"
    /\ r_late = FALSE
    /\ r_dropped = FALSE

InitSess ==
    /\ s_pc = "start"
    /\ retry_count = 0
    /\ s_info = None
    /\ s_exc = "None"
    /\ s_sent = <<>>
    /\ s_reply = None
    /\ s_tasks = {}
    /\ s_log = <<>>

\* nothing is constructed yet, no thread runs
InitRest ==
    /\ hb_failed = FALSE
    /\ h_pc = "new"
    /\ h_exc = "None"
    /\ det_cfg = "None"
    /\ reader_cfg = "None"
    /\ d_exit = FALSE
    /\ w_alive = FALSE
    /\ w_checked = FALSE
    /\ w_idle = FALSE
    /\ b_exit = FALSE
    /\ b_alive = FALSE
    /\ k_pc = "new"
    /\ k_first = None
    /\ g_pc = "idle"
    /\ g_n = 0
    /\ g_left = 0
    /\ put_log = <<>>
    /\ rec_log = <<>>

InitExt == InitQueues /\ InitCodec /\ InitRecv /\ InitSess /\ InitRest

Init == InitAgg /\ InitDet /\ InitLoop /\ InitExt

\* put_mview_urls(rtsp_urls)
PutMviewUrls(job) ==
    /\ input_queue' = ForcePut(input_queue, input_queue_len, job)
    /\ UNCHANGED <<output_queue, rtsp_failure_count, rtsp_backlist,
                   fail_streak, doomed, last_published, last_captured>>

\* get_mview_results(): the oldest queued result, None on an empty queue
GetMviewResults ==
    /\ output_queue' = IF output_queue = <<>> THEN <<>> ELSE Tail(output_queue)
    /\ UNCHANGED <<input_queue, rtsp_failure_count, rtsp_backlist,
                   fail_streak, doomed, last_published, last_captured>>

Min(a, b) == IF a <= b THEN a ELSE b

\* one iteration of the worker that finds a job (without one, line 188
\* returns and nothing changes)
WorkerRunOneLoop(ok, seen) ==
    /\ input_queue # <<>>
    /\ LET job == Head(input_queue)
           st  == ProcessJob([count |-> rtsp_failure_count,
                              backlist |-> rtsp_backlist,
                              results |-> EmptyDict], job, ok, seen)
       IN  /\ ok \subseteq Range(job)
           /\ seen \subseteq ok
           /\ input_queue' = Tail(input_queue)
           /\ rtsp_failure_count' = st.count
           /\ rtsp_backlist' = st.backlist
           /\ output_queue' = ForcePut(output_queue, output_queue_len, st.results)

\* the history of the worker: ok is what the cameras of the job deliver,
\* whether the worker reads them or not
WorkerHistory(ok) ==
    LET job == Head(input_queue)
        fs  == [s \in Scenes |->
                  IF s \notin Range(job) THEN fail_streak[s]
                  ELSE IF s \in ok THEN 0
                  ELSE Min(fail_streak[s] + 1, rtsp_tolerance)]
    IN  /\ fail_streak' = fs
        /\ doomed' = doomed \cup { s \in Scenes : fs[s] >= rtsp_tolerance }
        /\ last_published' = Head(output_queue')

\* the history of the captures: for every source of the job that was not
\* blacklisted when the job started and whose camera delivered a frame,
\* whether the frame showed a cat
WorkerCaptures(ok, seen) ==
    last_captured' =
        [s \in (ok \cap Range(Head(input_queue))) \ Range(rtsp_backlist)
            |-> s \in seen]

detHistVars == <<fail_streak, doomed, last_published, last_captured>>

\* the jobs: any selection of the configured sources
Jobs == { KeysIn(obs_scenes, S) : S \in SUBSET Scenes }

\* the detection processor alone: jobs are put, the worker runs, results
\* are polled
NextDet ==
    \/ \E job \in Jobs : PutMviewUrls(job) /\ UNCHANGED <<aggVars, loopVars, extVars>>
    \/ \E ok \in SUBSET Scenes : \E seen \in SUBSET ok :
           /\ WorkerRunOneLoop(ok, seen)
           /\ WorkerHistory(ok)
           /\ WorkerCaptures(ok, seen)
           /\ UNCHANGED <<aggVars, loopVars, extVars>>
    \/ GetMviewResults /\ UNCHANGED <<aggVars, loopVars, extVars>>

SpecDet == Init /\ [][NextDet]_vars

\* the aggregator alone: events arrive, a caller polls and resets
NextVote ==
    \/ \E e \in Events : PutEvent(e) /\ UNCHANGED <<detVars, loopVars, extVars>>
    \/ GetVoteResults(FALSE) /\ DrainHistory /\ UNCHANGED <<detVars, loopVars, extVars>>
    \/ Reset /\ ResetHistory /\ UNCHANGED <<detVars, loopVars, extVars>>

SpecVote == Init /\ [][NextVote]_vars

\* the same, remembering who had voted in the round a reset ended
VoteEvents == { EventOf(u, m) : u \in Users, m \in { <<"a">>, <<"b">> } }

NextReset ==
    \/ \E e \in VoteEvents : PutEvent(e) /\ UNCHANGED <<detVars, loopVars, extVars>>
    \/ GetVoteResults(FALSE) /\ DrainHistory /\ UNCHANGED <<detVars, loopVars, extVars>>
    \/ Reset /\ ResetHistoryPrev /\ UNCHANGED <<detVars, loopVars, extVars>>

SpecReset == Init /\ [][NextReset]_vars

\* a caller that keeps what get_vote_results returned across later calls
AliasEvents == { EventOf(u, m) : u \in {"U1", "U2"}, m \in { <<"a">>, <<"b">> } }

NextAlias ==
    \/ \E e \in AliasEvents : PutEvent(e) /\ UNCHANGED <<detVars, loopVars, extVars>>
    \/ \E bind \in BOOLEAN :
           GetVoteResults(bind) /\ UNCHANGED histVars /\ UNCHANGED <<detVars, loopVars, extVars>>
    \/ Reset /\ UNCHANGED histVars /\ UNCHANGED <<detVars, loopVars, extVars>>

SpecAlias == Init /\ [][NextAlias]_vars

(***************************************************************************)
(* Operations of the orchestration loop.                                   *)
(***************************************************************************)
\* start() before its first tick: _transit_to_idle (lines 223-230)
Start ==
    /\ state = "INITIAL"
    /\ state' = "IDLE"
    /\ votes' = ResetObj
    /\ heap' = [heap EXCEPT ![ResetObj] = EmptyDict]
    /\ voted_users' = {}
    /\ next_vote_time' = now + vote_interval
    /\ UNCHANGED <<interact_queue, held, held_snap, histVars, detVars, extVars,
                   now, next_detect_time, last_detect_vote_results,
                   latest_scene_names, offline_scene_names, current_scene,
                   obs_calls, last_tick, scen, switches, tallies,
                   remembered, reused>>

\* what one pass of _run_one_loop computes from the state it starts in
\* line 151: time to trigger detection
TickTriggers == next_detect_time < now

\* get_mview_results() (line 127)
TickDetectResults ==
    IF output_queue = <<>> THEN None ELSE Some(Head(output_queue))

\* reachable scenes that no result changes
TickLatestStale == latest_scene_names

\* lines 129-136
TickLatest ==
    IF TickDetectResults = None THEN latest_scene_names
    ELSE DOMAIN TickDetectResults[1]

\* _collect_detection_vote_results (lines 137-144)
TickDetectVotes ==
    IF TickDetectResults = None THEN None
    ELSE Some(DetectVotes(TickDetectResults[1]))

\* get_vote_results() (line 160): the cache after _load_new_msg
TickCache == LoadNewMsg(Cache, interact_queue)

\* detection votes that are forgotten when no result arrives
TickLastDetectForgets == TickDetectVotes

\* lines 167-171: the detection votes that are merged and remembered
TickLastDetect ==
    IF TickDetectVotes # None THEN TickDetectVotes
    ELSE last_detect_vote_results

\* msrc_vote_results (lines 164-171): the dicts of the sources
TickMsrc == <<TickCache.votes>> \o TickLastDetect

\* tgt_scene_name (lines 172-173)
TickTarget == ConvertVoteResults(TickMsrc, TickLatest)

\* vote_time_left <= 0 (lines 174-175)
TickBoundary == next_vote_time - now <= 0

\* a switch whenever there is a leader, deadline or not
TickSwitchesEarly == TickTarget # "None"

\* a switch at every boundary, leader or not
TickSwitchesAlways == TickBoundary

\* the switch of lines 179-184
TickSwitches == TickBoundary /\ TickTarget # "None"

\* _run_one_loop, and the time d that passes until the next one starts:
\* what it does to the loop, the aggregator and the queues
TickBody(d) ==
    /\ state = "IDLE"
    /\ now' = now + d
    /\ input_queue' =
           IF TickTriggers
           THEN ForcePut(input_queue, input_queue_len, KeysIn(obs_scenes, Scenes))
           ELSE input_queue
    /\ next_detect_time' =
           IF TickTriggers THEN now + detect_interval ELSE next_detect_time
    /\ output_queue' = IF output_queue = <<>> THEN <<>> ELSE Tail(output_queue)
    /\ latest_scene_names' = TickLatest
    /\ offline_scene_names' =
           IF TickDetectResults = None THEN offline_scene_names
           ELSE KeysIn(obs_scenes, Scenes \ TickLatest)
    /\ interact_queue' = <<>>
    /\ votes' = IF TickBoundary THEN ResetObj ELSE votes
    /\ heap' = IF TickBoundary
               THEN [[heap EXCEPT ![votes] = TickCache.votes]
                        EXCEPT ![ResetObj] = EmptyDict]
               ELSE [heap EXCEPT ![votes] = TickCache.votes]
    /\ voted_users' = IF TickBoundary THEN {} ELSE TickCache.voted_users
    /\ next_vote_time' =
           IF TickBoundary THEN now + vote_interval ELSE next_vote_time
    /\ last_detect_vote_results' =
           IF TickSwitches THEN None ELSE TickLastDetect
    /\ current_scene' = IF TickSwitches THEN TickTarget ELSE current_scene
    /\ obs_calls' = IF TickSwitches THEN obs_calls + 1 ELSE obs_calls
    /\ UNCHANGED <<held, held_snap, histVars, state,
                   rtsp_failure_count, rtsp_backlist, detHistVars>>

RunOneLoop(d) == TickBody(d) /\ UNCHANGED extVars

\* the history of a tick: the combined score of every vote key, the scenes
\* that were reachable, the leader and the scene switched to
TickHistory ==
    /\ last_tick' =
           [boundary |-> TickBoundary,
            scores   |-> [k \in VoteKeys |-> VoteSum(TickMsrc, k)],
            reach    |-> TickLatest,
            leader   |-> TickTarget,
            switched |-> IF obs_calls' > obs_calls THEN current_scene'
                         ELSE "None"]
    /\ remembered' =
           IF obs_calls' > obs_calls THEN None
           ELSE IF output_queue # <<>>
           THEN Some(DetectVotes(Head(output_queue)))
           ELSE remembered
    /\ reused' = (output_queue = <<>> /\ remembered # None)
    /\ UNCHANGED <<scen, switches, tallies>>

\* the scenario: U1 votes a, U2 votes b, U1 votes b, the vote window ends,
\* U3 votes b, the vote window ends; its voters wear no medal, U3 is a
\* super user, chat votes only, every scene reachable
PlainEvent(u, m) ==
    [uid |-> u, msg |-> m, medal_name |-> "", medal_level |-> 0]

BoundaryMark == PlainEvent("-", <<>>)

Scenario ==
    << PlainEvent("U1", <<"a">>), PlainEvent("U2", <<"b">>),
       PlainEvent("U1", <<"b">>), BoundaryMark,
       PlainEvent("U3", <<"b">>), BoundaryMark >>

TickTokens ==
    interact_queue \o (IF TickBoundary THEN <<BoundaryMark>> ELSE <<>>)

ScenAfterTick ==
    LET n == Len(TickTokens)
    IN  IF /\ scen >= 0
           /\ scen + n <= Len(Scenario)
           /\ SubSeq(Scenario, scen + 1, scen + n) = TickTokens
           /\ TickLatest = Scenes
           /\ \A k \in VoteKeys : VoteSum(TickLastDetect, k) = 0
        THEN scen + n
        ELSE -1

ScenarioHistory ==
    /\ scen' = ScenAfterTick
    /\ switches' = IF ScenAfterTick = -1 THEN <<>>
                   ELSE IF obs_calls' > obs_calls
                   THEN Append(switches, current_scene')
                   ELSE switches
    /\ tallies' = IF ScenAfterTick = -1 THEN <<>>
                  ELSE IF TickBoundary THEN Append(tallies, TickCache.votes)
                  ELSE tallies
    /\ UNCHANGED <<last_tick, remembered, reused>>

\* the loop with its two sources of votes: the chat of two users, and the
\* detection worker with cameras that fail and cats that come and go
LoopEvents ==
    { EventOf("U1", <<"a">>), EventOf("U1", <<"b">>), EventOf("U2", <<"b">>) }

NextLoop ==
    \/ Start
    \/ \E e \in LoopEvents : PutEvent(e) /\ UNCHANGED <<detVars, loopVars, extVars>>
    \/ \E d \in 0..1 : now + d <= FirstWindow /\ RunOneLoop(d) /\ TickHistory
    \/ \E ok \in SUBSET Scenes : \E seen \in SUBSET ok :
           /\ WorkerRunOneLoop(ok, seen)
           /\ UNCHANGED <<detHistVars, aggVars, loopVars, extVars>>

SpecLoop == Init /\ [][NextLoop]_vars

\* the loop, followed along the scenario: every camera delivers its frame
\* and no cat is seen, so that the chat is the only source of votes
ScenarioEvents ==
    { Scenario[i] : i \in { j \in 1..Len(Scenario) : Scenario[j] # BoundaryMark } }

NextScenario ==
    \/ Start
    \/ \E e \in ScenarioEvents : PutEvent(e) /\ UNCHANGED <<detVars, loopVars, extVars>>
    \/ \E d \in 0..1 : now + d <= MaxTime /\ RunOneLoop(d) /\ ScenarioHistory
    \/ /\ WorkerRunOneLoop(Scenes, {})
       /\ UNCHANGED <<detHistVars, aggVars, loopVars, extVars>>

SpecScenario == Init /\ [][NextScenario]_vars


\* the loop over two vote windows, with the chat and the worker of NextLoop:
\* the history keeps the scenes switched to and the tally at every reset
SwitchHistory ==
    /\ switches' = IF obs_calls' > obs_calls
                   THEN Append(switches, current_scene')
                   ELSE switches
    /\ tallies' = IF TickBoundary THEN Append(tallies, TickCache.votes)
                  ELSE tallies
    /\ UNCHANGED <<last_tick, scen, remembered, reused>>

WindowEvents == { EventOf("U1", <<"a">>), EventOf("U2", <<"b">>) }

NextWindows ==
    \/ Start
    \/ \E e \in WindowEvents : PutEvent(e) /\ UNCHANGED <<detVars, loopVars, extVars>>
    \/ \E d \in 0..1 : now + d <= MaxTime /\ RunOneLoop(d) /\ SwitchHistory
    \/ \E ok \in SUBSET Scenes : \E seen \in SUBSET ok :
           /\ WorkerRunOneLoop(ok, seen)
           /\ UNCHANGED <<detHistVars, aggVars, loopVars, extVars>>

SpecWindows == Init /\ [][NextWindows]_vars

(***************************************************************************)
(* The two latest-wins queues, with force_put taken step by step: the loop *)
(* submits jobs and polls results, the worker takes jobs and publishes.    *)
(***************************************************************************)
\* submissions followed by the history of the queues
MaxJobs == 3

\* put_mview_urls(rtsp_urls) enters force_put
LoopSubmit(job) ==
    /\ l_pc = "idle"
    /\ sub_seq < MaxJobs
    /\ l_data' = job
    /\ sub_seq' = sub_seq + 1
    /\ l_pc' = "full"
    /\ UNCHANGED <<w_pc, w_data, in_tags, taken_tag, out_tags, delivered_tag,
                   detVars>>

\* line 13 on the input queue
LoopFull ==
    /\ l_pc = "full"
    /\ l_pc' = IF QueueFull(input_queue, input_queue_len) THEN "evict" ELSE "put"
    /\ UNCHANGED <<w_pc, w_data, l_data, sub_seq, in_tags, taken_tag, out_tags,
                   delivered_tag, detVars>>

\* lines 14-19 on the input queue
LoopEvict ==
    /\ l_pc = "evict"
    /\ input_queue' = GetNowait(input_queue)
    /\ in_tags' = GetNowait(in_tags)
    /\ l_pc' = "put"
    /\ UNCHANGED <<w_pc, w_data, l_data, sub_seq, taken_tag, out_tags,
                   delivered_tag, output_queue, rtsp_failure_count,
                   rtsp_backlist, detHistVars>>

\* line 20 on the input queue
LoopPut ==
    /\ l_pc = "put"
    /\ CanPut(input_queue, input_queue_len)
    /\ input_queue' = Append(input_queue, l_data)
    /\ in_tags' = Append(in_tags, sub_seq)
    /\ l_pc' = "idle"
    /\ UNCHANGED <<w_pc, w_data, l_data, sub_seq, taken_tag, out_tags,
                   delivered_tag, output_queue, rtsp_failure_count,
                   rtsp_backlist, detHistVars>>

\* get_mview_results() of the loop (it is not inside put_mview_urls then)
LoopPoll ==
    /\ l_pc = "idle"
    /\ output_queue' = GetNowait(output_queue)
    /\ out_tags' = GetNowait(out_tags)
    /\ delivered_tag' = IF out_tags = <<>> THEN delivered_tag ELSE Head(out_tags)
    /\ UNCHANGED <<w_pc, w_data, l_pc, l_data, sub_seq, in_tags, taken_tag,
                   input_queue, rtsp_failure_count, rtsp_backlist, detHistVars>>

\* the worker takes a job (line 186), reads its sources (lines 189-214) and
\* enters force_put (line 218)
WorkerTake(ok, seen) ==
    /\ w_pc = "take"
    /\ input_queue # <<>>
    /\ LET job == Head(input_queue)
           st  == ProcessJob([count |-> rtsp_failure_count,
                              backlist |-> rtsp_backlist,
                              results |-> EmptyDict], job, ok, seen)
       IN  /\ ok \subseteq Range(job)
           /\ seen \subseteq ok
           /\ input_queue' = Tail(input_queue)
           /\ in_tags' = Tail(in_tags)
           /\ taken_tag' = Head(in_tags)
           /\ rtsp_failure_count' = st.count
           /\ rtsp_backlist' = st.backlist
           /\ w_data' = st.results
           /\ w_pc' = "full"
    /\ UNCHANGED <<l_pc, l_data, sub_seq, out_tags, delivered_tag,
                   output_queue, detHistVars>>

\* line 13 on the output queue
WorkerFull ==
    /\ w_pc = "full"
    /\ w_pc' = IF QueueFull(output_queue, output_queue_len) THEN "evict" ELSE "put"
    /\ UNCHANGED <<w_data, l_pc, l_data, sub_seq, in_tags, taken_tag, out_tags,
                   delivered_tag, detVars>>

\* lines 14-19 on the output queue
WorkerEvict ==
    /\ w_pc = "evict"
    /\ output_queue' = GetNowait(output_queue)
    /\ out_tags' = GetNowait(out_tags)
    /\ w_pc' = "put"
    /\ UNCHANGED <<w_data, l_pc, l_data, sub_seq, in_tags, taken_tag,
                   delivered_tag, input_queue, rtsp_failure_count,
                   rtsp_backlist, detHistVars>>

\* line 20 on the output queue
WorkerPut ==
    /\ w_pc = "put"
    /\ CanPut(output_queue, output_queue_len)
    /\ output_queue' = Append(output_queue, w_data)
    /\ out_tags' = Append(out_tags, taken_tag)
    /\ w_pc' = "take"
    /\ UNCHANGED <<w_data, l_pc, l_data, sub_seq, in_tags, taken_tag,
                   delivered_tag, input_queue, rtsp_failure_count,
                   rtsp_backlist, detHistVars>>

NextQueues ==
    \/ \E job \in Jobs : LoopSubmit(job) /\ UNCHANGED <<aggVars, loopVars, codecVars, recvVars, sessVars, restVars>>
    \/ LoopFull /\ UNCHANGED <<aggVars, loopVars, codecVars, recvVars, sessVars, restVars>>
    \/ LoopEvict /\ UNCHANGED <<aggVars, loopVars, codecVars, recvVars, sessVars, restVars>>
    \/ LoopPut /\ UNCHANGED <<aggVars, loopVars, codecVars, recvVars, sessVars, restVars>>
    \/ LoopPoll /\ UNCHANGED <<aggVars, loopVars, codecVars, recvVars, sessVars, restVars>>
    \/ \E ok \in SUBSET Scenes : \E seen \in SUBSET ok :
           WorkerTake(ok, seen) /\ UNCHANGED <<aggVars, loopVars, codecVars, recvVars, sessVars, restVars>>
    \/ WorkerFull /\ UNCHANGED <<aggVars, loopVars, codecVars, recvVars, sessVars, restVars>>
    \/ WorkerEvict /\ UNCHANGED <<aggVars, loopVars, codecVars, recvVars, sessVars, restVars>>
    \/ WorkerPut /\ UNCHANGED <<aggVars, loopVars, codecVars, recvVars, sessVars, restVars>>

SpecQueues == Init /\ [][NextQueues]_vars

(***************************************************************************)
(* The codec exercise: a frame is packed, the buffer travels and may be    *)
(* cut short or have its length field overwritten, a new object unpacks it.*)
(***************************************************************************)
\* req = _BliveProto(); req.body = ...; req.op = ... (as at lines 140-142
\* and 155-157)
MakeFrame(op, seq, ver, body) ==
    /\ c_phase = "new"
    /\ c_frame' = FrameOf(op, seq, ver, body)
    /\ c_phase' = "frame"
    /\ UNCHANGED <<c_buf, c_tamper, c_obj, c_ret>>

\* req.pack() (as at lines 143 and 159)
PackFrame ==
    /\ c_phase = "frame"
    /\ c_buf' = Pack(c_frame)
    /\ c_phase' = "packed"
    /\ UNCHANGED <<c_frame, c_tamper, c_obj, c_ret>>

\* the buffers that are no frames: fewer bytes than a header, or a total
\* length that is negative or above the maximum
CutLengths == {0, 8, headerLen - 1}

BadLengths == {-1, maxBody + 1, 2147483647}

CutShort(n) ==
    /\ c_phase = "packed"
    /\ c_tamper = "none"
    /\ c_buf' = Slice(c_buf, 0, n)
    /\ c_tamper' = "cut"
    /\ UNCHANGED <<c_phase, c_frame, c_obj, c_ret>>

OverwriteLength(n) ==
    /\ c_phase = "packed"
    /\ c_tamper = "none"
    /\ c_buf' = PackInt(n) \o Slice(c_buf, 4, Len(c_buf))
    /\ c_tamper' = "length"
    /\ UNCHANGED <<c_phase, c_frame, c_obj, c_ret>>

\* resp = _BliveProto(); resp.unpack(buf) (as at lines 145-146, 167-168)
UnpackFrame ==
    /\ c_phase = "packed"
    /\ c_obj' = Unpack(NewProto, c_buf)
    /\ c_ret' = UnpackReturn(NewProto, c_buf)
    /\ c_phase' = "decoded"
    /\ UNCHANGED <<c_frame, c_buf, c_tamper>>

NextCodec ==
    \/ \E op \in FrameOps, seq \in {0, 1}, ver \in {0, 1}, body \in FrameBodies :
           MakeFrame(op, seq, ver, body)
               /\ UNCHANGED <<aggVars, detVars, loopVars, qVars, recvVars, sessVars, restVars>>
    \/ PackFrame /\ UNCHANGED <<aggVars, detVars, loopVars, qVars, recvVars, sessVars, restVars>>
    \/ \E n \in CutLengths :
           CutShort(n) /\ UNCHANGED <<aggVars, detVars, loopVars, qVars, recvVars, sessVars, restVars>>
    \/ \E n \in BadLengths :
           OverwriteLength(n) /\ UNCHANGED <<aggVars, detVars, loopVars, qVars, recvVars, sessVars, restVars>>
    \/ UnpackFrame /\ UNCHANGED <<aggVars, detVars, loopVars, qVars, recvVars, sessVars, restVars>>

SpecCodec == Init /\ [][NextCodec]_vars

(***************************************************************************)
(* The receive loop of the chat client: recv_loop.                         *)
(***************************************************************************)
\* json.loads(body_str) (line 172) on the bodies of the model: a body that
\* starts with D stands for the JSON text of a chat message, its second
\* character for the uid and uname and its third for the msg; a body that
\* starts with G stands for the JSON text of another command; every other
\* body, the empty one included, is no JSON text and json.loads raises
JsonLoads(body) ==
    IF body.val = <<>> THEN [error |-> TRUE]
    ELSE IF body.type = "bytes" /\ Len(body.val) = 3 /\ body.val[1] = 68
        THEN [error |-> FALSE, cmd |-> "LIVE_OPEN_PLATFORM_DM",
              data |-> [uid |-> body.val[2], uname |-> body.val[2],
                        msg |-> body.val[3]]]
    ELSE IF body.type = "bytes" /\ body.val[1] = 71
        THEN [error |-> FALSE, cmd |-> "LIVE_OPEN_PLATFORM_SEND_GIFT"]
    ELSE [error |-> TRUE]

\* the buffers the server sends: chat messages, a gift, a heartbeat reply,
\* an operation-5 frame whose body is no JSON text
ChatFrames ==
    { Pack(FrameOf(5, 0, 0, <<"D", u, m>>)) : u \in {"0", "1"}, m \in {"a", "b"} }

GoodFrames ==
    ChatFrames \cup { Pack(FrameOf(5, 0, 0, <<"G">>)), Pack(FrameOf(3, 0, 0, <<>>)),
                      Pack(FrameOf(5, 0, 0, <<"a">>)) }

\* and the buffers that are no frames: a chat message or a heartbeat reply
\* cut short, or with a total length out of range
BadFrames ==
    LET chat == Pack(FrameOf(5, 0, 0, <<"D", "0", "a">>))
        beat == Pack(FrameOf(3, 0, 0, <<>>))
    IN  { Slice(chat, 0, n) : n \in CutLengths }
            \cup { PackInt(n) \o Slice(chat, 4, Len(chat)) : n \in BadLengths }
            \cup { PackInt(n) \o Slice(beat, 4, Len(beat)) : n \in BadLengths }

\* clean_data = dict(uid=uid, uname=uname, msg=msg) (lines 175-179)
CleanData(body_dict) ==
    [uid |-> body_dict.data.uid, uname |-> body_dict.data.uname,
     msg |-> body_dict.data.msg]

aggRest == <<heap, votes, voted_users, held, held_snap, histVars>>

\* one pass of the while loop (lines 166-196) up to the call of put; put
\* returns at once when the queue has room, and waits otherwise
RecvFrame(recvBuf) ==
    /\ r_alive
    /\ r_pc = "recv"
    /\ r_last' = IF Len(recvBuf) < headerLen
                    \/ LengthOutOfRange(WithHeader(NewProto, recvBuf))
                 THEN "malformed" ELSE "frame"
    /\ LET resp == Unpack(NewProto, recvBuf)
           body_dict == JsonLoads(resp.body)
       IN  IF OperationType(resp) # "OP_SEND_SMS_REPLY"
           THEN UNCHANGED <<interact_queue, r_alive, r_pc, r_ev>>
           ELSE IF body_dict.error
           THEN /\ r_alive' = FALSE
                /\ UNCHANGED <<interact_queue, r_pc, r_ev>>
           ELSE IF body_dict.cmd # "LIVE_OPEN_PLATFORM_DM"
           THEN UNCHANGED <<interact_queue, r_alive, r_pc, r_ev>>
           ELSE IF CanPut(interact_queue, interact_queue_len)
           THEN /\ interact_queue' = Append(interact_queue, CleanData(body_dict))
                /\ UNCHANGED <<r_alive, r_pc, r_ev>>
           ELSE /\ r_pc' = "putting"
                /\ r_ev' = Some(CleanData(body_dict))
                /\ UNCHANGED <<interact_queue, r_alive>>
    /\ UNCHANGED <<aggRest, r_late, r_dropped>>

\* interact_queue.put(clean_data, timeout=self.queue_put_timeout) (lines
\* 184-185), waiting: a slot is freed before the timeout, and put enqueues
PutAfterWait ==
    /\ r_pc = "putting"
    /\ CanPut(interact_queue, interact_queue_len)
    /\ interact_queue' = Append(interact_queue, r_ev[1])
    /\ r_pc' = "recv"
    /\ r_ev' = None
    /\ r_late' = TRUE
    /\ UNCHANGED <<aggRest, r_alive, r_last, r_dropped>>

\* the timeout passes with the queue still full: put raises Full, the
\* event is logged and dropped (lines 186-189)
PutTimesOut ==
    /\ r_pc = "putting"
    /\ ~CanPut(interact_queue, interact_queue_len)
    /\ r_pc' = "recv"
    /\ r_ev' = None
    /\ r_dropped' = TRUE
    /\ UNCHANGED <<aggVars, r_alive, r_last, r_late>>

\* the aggregator takes an event off the queue
\* (bili_interact_reader.py, line 96)
TakeEvent ==
    /\ interact_queue # <<>>
    /\ interact_queue' = Tail(interact_queue)
    /\ UNCHANGED <<aggRest, recvVars>>

NextRecv ==
    \/ \E recvBuf \in GoodFrames :
           RecvFrame(recvBuf) /\ UNCHANGED <<detVars, loopVars, qVars, codecVars, sessVars, restVars>>
    \/ \E recvBuf \in BadFrames :
           RecvFrame(recvBuf) /\ UNCHANGED <<detVars, loopVars, qVars, codecVars, sessVars, restVars>>
    \/ PutAfterWait /\ UNCHANGED <<detVars, loopVars, qVars, codecVars, sessVars, restVars>>
    \/ PutTimesOut /\ UNCHANGED <<detVars, loopVars, qVars, codecVars, sessVars, restVars>>
    \/ TakeEvent /\ UNCHANGED <<detVars, loopVars, qVars, codecVars, sessVars, restVars>>

SpecRecv == Init /\ [][NextRecv]_vars

(***************************************************************************)
(* The session client: run, connect, get_websocket_info, auth.             *)
(***************************************************************************)
\* retry_max of get_websocket_info (line 95)
retry_max == 5

\* the frames of send_heartbeat that the model follows
MaxBeats == 2

\* the responses to the start-session call, as json.loads(r.content) gives
\* them: with session data (game_info and websocket_info), with "data": null
\* or "game_info": null (no session data), and without a "data" key
SessionResponse(addr, authBody) ==
    [data |-> Some([game_info |-> Some([game_id |-> "g"]),
                    websocket_info |-> [wss_link |-> <<addr>>,
                                        auth_body |-> authBody]])]

NullDataResponse == [data |-> None]

NullGameInfoResponse == [data |-> Some([game_info |-> None])]

NoDataResponse == [code |-> 1]

Addresses == {"0", "1"}

AuthBodies == { <<"a">>, <<"a", "b">> }

StartResponses ==
    { SessionResponse(addr, authBody) : addr \in Addresses, authBody \in AuthBodies }
        \cup {NullDataResponse, NullGameInfoResponse, NoDataResponse}

\* the test of the while loop with one attempt too many
LoopGoesOnOnceMore(count) == count <= retry_max

\* the test of the while loop (line 98)
LoopGoesOn(count) == count < retry_max

\* what the try block (lines 103-106) does with a response that has a
\* "data" key: subscripting None raises TypeError
RaisesTypeError(data) ==
    \/ data.data = None
    \/ data.data[1].game_info = None

\* one pass of the while loop (lines 98-110) and, on break, the rest of the
\* function (lines 111-119)
StartSession(data) ==
    /\ s_pc = "start"
    /\ LoopGoesOn(retry_count)
    /\ s_log' = Append(s_log, data)
    /\ IF "data" \notin DOMAIN data
       THEN /\ s_pc' = "raised"
            /\ s_exc' = "KeyError"
            /\ UNCHANGED <<retry_count, s_info>>
       ELSE IF RaisesTypeError(data)
       THEN /\ retry_count' = retry_count + 1
            /\ UNCHANGED <<s_pc, s_exc, s_info>>
       ELSE /\ s_pc' = "session"
            /\ s_info' = Some(<<data.data[1].websocket_info.wss_link[1],
                                data.data[1].websocket_info.auth_body>>)
            /\ UNCHANGED <<retry_count, s_exc>>
    /\ UNCHANGED <<s_sent, s_reply, s_tasks>>

\* the loop ends without a game id (lines 111-113)
SessionUnavailable ==
    /\ s_pc = "start"
    /\ ~LoopGoesOn(retry_count)
    /\ s_pc' = "raised"
    /\ s_exc' = "ValueError"
    /\ UNCHANGED <<retry_count, s_info, s_sent, s_reply, s_tasks, s_log>>

\* websocket = await websockets.connect(addr) (line 203)
Connect ==
    /\ s_pc = "session"
    /\ s_pc' = "connected"
    /\ UNCHANGED <<retry_count, s_info, s_exc, s_sent, s_reply, s_tasks, s_log>>

\* an auth request that is a heartbeat frame
AuthRequestAsHeartbeat(authBody) == Pack(FrameOf(2, 0, 0, authBody))

\* req = _BliveProto(); req.body = authBody; req.op = 7; req.pack()
\* (lines 140-143)
AuthRequest(authBody) == Pack(FrameOf(7, 0, 0, authBody))

\* await websocket.send(req.pack()) (line 143)
SendAuth ==
    /\ s_pc = "connected"
    /\ s_sent' = Append(s_sent, AuthRequest(s_info[1][2]))
    /\ s_pc' = "auth_sent"
    /\ UNCHANGED <<retry_count, s_info, s_exc, s_reply, s_tasks, s_log>>

\* the replies to the auth request: an AUTH_REPLY frame whose body stands
\* for the JSON text {"code": 0} (body "0") or {"code": nonzero} (body "1"),
\* and one whose body is no JSON text
AuthReplies ==
    { Pack(FrameOf(8, 0, 0, <<"0">>)), Pack(FrameOf(8, 0, 0, <<"1">>)),
      Pack(FrameOf(8, 0, 0, <<>>)) }

\* json.loads(resp.body) (line 147) on the reply bodies of the model
AuthJson(body) ==
    IF body.type = "bytes" /\ body.val = <<48>> THEN [error |-> FALSE, code |-> 0]
    ELSE IF body.type = "bytes" /\ body.val = <<49>> THEN [error |-> FALSE, code |-> 4000]
    ELSE [error |-> TRUE]

\* buf = await websocket.recv() and the rest of auth (lines 144-151), the
\* return of connect, and the tasks that run() starts (lines 49-53)
ReceiveAuthReply(buf) ==
    /\ s_pc = "auth_sent"
    /\ s_reply' = Some(buf)
    /\ LET respBody == AuthJson(Unpack(NewProto, buf).body)
       IN  IF respBody.error
           THEN /\ s_pc' = "raised"
                /\ s_exc' = "JSONDecodeError"
                /\ UNCHANGED s_tasks
           ELSE /\ s_pc' = "running"
                /\ s_tasks' = {"recv_loop", "send_heartbeat", "app_send_heartbeat"}
                /\ UNCHANGED s_exc
    /\ UNCHANGED <<retry_count, s_info, s_sent, s_log>>

\* send_heartbeat (lines 154-160): req.op = 2; websocket.send(req.pack())
SendHeartbeat ==
    /\ "send_heartbeat" \in s_tasks
    /\ Len(s_sent) < 1 + MaxBeats
    /\ s_sent' = Append(s_sent, Pack(FrameOf(2, 0, 0, <<>>)))
    /\ UNCHANGED <<s_pc, retry_count, s_info, s_exc, s_reply, s_tasks, s_log>>

NextSession ==
    \/ \E data \in StartResponses :
           StartSession(data)
               /\ UNCHANGED <<aggVars, detVars, loopVars, qVars, codecVars, recvVars, restVars>>
    \/ SessionUnavailable
           /\ UNCHANGED <<aggVars, detVars, loopVars, qVars, codecVars, recvVars, restVars>>
    \/ Connect /\ UNCHANGED <<aggVars, detVars, loopVars, qVars, codecVars, recvVars, restVars>>
    \/ SendAuth /\ UNCHANGED <<aggVars, detVars, loopVars, qVars, codecVars, recvVars, restVars>>
    \/ \E buf \in AuthReplies :
           ReceiveAuthReply(buf)
               /\ UNCHANGED <<aggVars, detVars, loopVars, qVars, codecVars, recvVars, restVars>>
    \/ SendHeartbeat
           /\ UNCHANGED <<aggVars, detVars, loopVars, qVars, codecVars, recvVars, restVars>>

SpecSession == Init /\ [][NextSession]_vars


(***************************************************************************)
(* The run of the session client: the three tasks under one gather.        *)
(***************************************************************************)
runRest ==
    <<detVars, loopVars, qVars, codecVars, helpVars, thrVars, ctorVars,
      drainVars>>

\* the status codes of the responses to the session heartbeat
HeartbeatStatuses == {200, 204, 500}

\* r.raise_for_status() (line 133) raises HTTPError for 4xx and 5xx
RaiseForStatus(status) == status >= 400 /\ status < 600

\* an exception of one task leaves asyncio.gather and run_until_complete
\* (line 54): run() ends, the event loop runs no task any more
GatherRaises(exc) ==
    /\ s_tasks' = {}
    /\ s_pc' = "raised"
    /\ s_exc' = exc
    /\ UNCHANGED <<retry_count, s_info, s_sent, s_reply, s_log>>

\* one round of app_send_heartbeat (lines 122-136) after its sleep
AppHeartbeat(status) ==
    /\ "app_send_heartbeat" \in s_tasks
    /\ hb_failed' = (hb_failed \/ status # 200)
    /\ IF status # 200 /\ RaiseForStatus(status)
       THEN GatherRaises("HTTPError") /\ r_alive' = FALSE
       ELSE UNCHANGED <<sessVars, r_alive>>
    /\ UNCHANGED <<aggVars, r_pc, r_ev, r_last, r_late, r_dropped>>

RunHeartbeat(status) == AppHeartbeat(status) /\ UNCHANGED runRest

\* one round of recv_loop as a task of run()
RunRecv(recvBuf) ==
    /\ "recv_loop" \in s_tasks
    /\ RecvFrame(recvBuf)
    /\ IF r_alive' THEN UNCHANGED sessVars ELSE GatherRaises("JSONDecodeError")
    /\ UNCHANGED <<runVars, drainVars, runRest>>

\* the end of a put that found the queue full
RunPut ==
    /\ "recv_loop" \in s_tasks
    /\ PutAfterWait \/ PutTimesOut
    /\ UNCHANGED <<sessVars, runVars, drainVars, runRest>>

\* the client thread: run() from connect to the tasks
RunTasks ==
    \/ StartSession(SessionResponse("0", <<"a">>))
           /\ UNCHANGED <<aggVars, recvVars, runVars, drainVars, runRest>>
    \/ Connect /\ UNCHANGED <<aggVars, recvVars, runVars, drainVars, runRest>>
    \/ SendAuth /\ UNCHANGED <<aggVars, recvVars, runVars, drainVars, runRest>>
    \/ ReceiveAuthReply(Pack(FrameOf(8, 0, 0, <<"0">>)))
           /\ UNCHANGED <<aggVars, recvVars, runVars, drainVars, runRest>>
    \/ SendHeartbeat /\ UNCHANGED <<aggVars, recvVars, runVars, drainVars, runRest>>
    \/ \E status \in HeartbeatStatuses : RunHeartbeat(status)
    \/ \E recvBuf \in GoodFrames \cup BadFrames : RunRecv(recvBuf)
    \/ RunPut

NextRun ==
    \/ RunTasks
    \/ TakeEvent /\ UNCHANGED <<sessVars, runVars, drainVars, runRest>>

SpecRun == Init /\ [][NextRun]_vars


(***************************************************************************)
(* BiliInteractReader.__init__: the client thread and the first item.      *)
(* The client object of lines 63-72 is taken as given.                     *)
(***************************************************************************)
\* what recv_loop can put on the interact queue: dicts
DictItems ==
    { CleanData(JsonLoads(Unpack(NewProto, recvBuf).body)) : recvBuf \in ChatFrames }

\* Python's == between a queue item and a str: a dict equals no str
PyEq(item, str) == IF item \in DictItems THEN FALSE ELSE item = str

\* a test of the first item that accepts every item
IsReadyAlways(first_item) == TRUE

\* first_item == 'Ready' (line 80)
IsReady(first_item) == PyEq(first_item, "Ready")

\* self.reset() (line 75; votes and voted_users are empty as constructed),
\* Thread(target=self.bili_client.run) and client_thread.start()
\* (lines 77-78)
NewReader ==
    /\ k_pc = "new"
    /\ k_pc' = "waiting"
    /\ b_alive' = TRUE
    /\ UNCHANGED <<k_first, d_exit, w_alive, w_checked, w_idle, b_exit,
                   helpVars, runVars, drainVars, aggVars, recvVars, sessVars, detVars,
                   loopVars, qVars, codecVars>>

\* first_item = self.interact_queue.get(block=True) returns (line 79); the
\* test and the ValueError of lines 80-84. The client thread is left
\* running in either case.
FirstItem ==
    /\ k_pc = "waiting"
    /\ interact_queue # <<>>
    /\ k_first' = Some(Head(interact_queue))
    /\ interact_queue' = Tail(interact_queue)
    /\ k_pc' = IF IsReady(Head(interact_queue)) THEN "constructed" ELSE "ValueError"
    /\ UNCHANGED <<aggRest, recvVars, sessVars, runVars, drainVars, helpVars, thrVars,
                   detVars, loopVars, qVars, codecVars>>

\* run() has raised: the client thread ends
ClientThreadEnds ==
    /\ b_alive
    /\ s_pc = "raised"
    /\ b_alive' = FALSE
    /\ UNCHANGED <<d_exit, w_alive, w_checked, w_idle, b_exit, ctorVars,
                   helpVars, runVars, drainVars, aggVars, recvVars, sessVars, detVars,
                   loopVars, qVars, codecVars>>

NextCtor ==
    \/ NewReader
    \/ b_alive /\ RunTasks
    \/ ClientThreadEnds
    \/ FirstItem

SpecCtor == Init /\ [][NextCtor]_vars


(***************************************************************************)
(* The stream helper: construction, start(), ticks that end in an error.   *)
(***************************************************************************)
Configs == {"None", "cfg"}

loopHistVars == <<last_tick, scen, switches, tallies, remembered, reused>>

\* the outcome of DetectionProcessor(logger=self.logger) (line 79):
\* detect_thread_cfg has no default (detection_processor.py, line 17)
WithoutDetectThreadCfg == "TypeError"

\* StreamHelper.__init__ (lines 57-114). valid is obs_client.server_valid.
\* The interact reader, when configured, is taken as constructed with its
\* client thread running; the mixer calls of lines 112-114 succeed.
Construct(valid, dc, rc) ==
    /\ h_pc = "new"
    /\ det_cfg' = dc
    /\ reader_cfg' = rc
    /\ IF ~valid
       THEN /\ h_pc' = "raised"
            /\ h_exc' = "ConnectionError"
            /\ UNCHANGED <<w_alive, b_alive>>
       ELSE IF dc = "None"
       THEN /\ h_pc' = "raised"
            /\ h_exc' = WithoutDetectThreadCfg
            /\ UNCHANGED <<w_alive, b_alive>>
       ELSE /\ h_pc' = "constructed"
            /\ w_alive' = TRUE
            /\ b_alive' = (rc # "None")
            /\ UNCHANGED h_exc
    /\ UNCHANGED <<d_exit, w_checked, w_idle, b_exit, runVars, drainVars, ctorVars, qVars,
                   codecVars, recvVars, sessVars, aggVars, detVars, loopVars>>

\* start() with an interact reader: _transit_to_idle resets it (line 226)
StartWithReader ==
    /\ h_pc = "constructed"
    /\ reader_cfg # "None"
    /\ Start

\* start() without one: _transit_to_idle (lines 223-230)
StartNoReader ==
    /\ h_pc = "constructed"
    /\ reader_cfg = "None"
    /\ state = "INITIAL"
    /\ state' = "IDLE"
    /\ next_vote_time' = now + vote_interval
    /\ UNCHANGED <<aggVars, detVars, extVars, now, next_detect_time,
                   last_detect_vote_results, latest_scene_names,
                   offline_scene_names, current_scene, obs_calls, loopHistVars>>

\* an exception leaves _run_one_loop and, not being KeyboardInterrupt
\* (line 212), start()
Crash(exc) ==
    /\ h_pc' = "crashed"
    /\ h_exc' = exc
    /\ UNCHANGED <<det_cfg, reader_cfg, runVars, drainVars, thrVars, ctorVars, qVars,
                   codecVars, recvVars, sessVars>>

\* a tick in which every mixer call succeeds
TickOk(d) ==
    /\ h_pc = "constructed"
    /\ reader_cfg # "None"
    /\ RunOneLoop(d)
    /\ UNCHANGED loopHistVars

\* a tick in which get_source_settings raises (line 120): nothing was
\* submitted and next_detect_time is not advanced
TickSettingsFail ==
    /\ h_pc = "constructed"
    /\ reader_cfg # "None"
    /\ state = "IDLE"
    /\ TickTriggers
    /\ Crash("RuntimeError")
    /\ UNCHANGED <<aggVars, detVars, loopVars>>

\* a tick in which set_current_scene raises (line 183): the detection job
\* is submitted, the result polled, the chat drained, the deadline advanced
\* and the aggregator reset; the scene is not switched and line 184 is not
\* reached
TickSwitchFail ==
    /\ h_pc = "constructed"
    /\ reader_cfg # "None"
    /\ state = "IDLE"
    /\ TickSwitches
    /\ input_queue' =
           IF TickTriggers
           THEN ForcePut(input_queue, input_queue_len, KeysIn(obs_scenes, Scenes))
           ELSE input_queue
    /\ next_detect_time' =
           IF TickTriggers THEN now + detect_interval ELSE next_detect_time
    /\ output_queue' = IF output_queue = <<>> THEN <<>> ELSE Tail(output_queue)
    /\ latest_scene_names' = TickLatest
    /\ offline_scene_names' =
           IF TickDetectResults = None THEN offline_scene_names
           ELSE KeysIn(obs_scenes, Scenes \ TickLatest)
    /\ interact_queue' = <<>>
    /\ votes' = ResetObj
    /\ heap' = [[heap EXCEPT ![votes] = TickCache.votes]
                   EXCEPT ![ResetObj] = EmptyDict]
    /\ voted_users' = {}
    /\ next_vote_time' = now + vote_interval
    /\ last_detect_vote_results' = TickLastDetect
    /\ Crash("RuntimeError")
    /\ UNCHANGED <<held, held_snap, histVars, state, now, current_scene,
                   obs_calls, rtsp_failure_count, rtsp_backlist, detHistVars,
                   loopHistVars>>

\* a tick in which get_current_scene_name or set_source_text raises (lines
\* 190-192): everything before them is done
TickLabelFail ==
    /\ h_pc = "constructed"
    /\ reader_cfg # "None"
    /\ TickBody(0)
    /\ Crash("RuntimeError")
    /\ UNCHANGED loopHistVars

\* a tick without an interact reader: interact_vote_results is None (line
\* 162), the detection votes alone are merged, and at the vote deadline
\* line 178 calls reset() on None after lines 176-177 advanced the deadline
TickNoReader(d) ==
    /\ h_pc = "constructed"
    /\ reader_cfg = "None"
    /\ state = "IDLE"
    /\ input_queue' =
           IF TickTriggers
           THEN ForcePut(input_queue, input_queue_len, KeysIn(obs_scenes, Scenes))
           ELSE input_queue
    /\ next_detect_time' =
           IF TickTriggers THEN now + detect_interval ELSE next_detect_time
    /\ output_queue' = IF output_queue = <<>> THEN <<>> ELSE Tail(output_queue)
    /\ latest_scene_names' = TickLatest
    /\ offline_scene_names' =
           IF TickDetectResults = None THEN offline_scene_names
           ELSE KeysIn(obs_scenes, Scenes \ TickLatest)
    /\ last_detect_vote_results' = TickLastDetect
    /\ IF TickBoundary
       THEN /\ next_vote_time' = now + vote_interval
            /\ Crash("AttributeError")
            /\ UNCHANGED now
       ELSE /\ now' = now + d
            /\ UNCHANGED <<next_vote_time, extVars>>
    /\ UNCHANGED <<aggVars, state, current_scene, obs_calls,
                   rtsp_failure_count, rtsp_backlist, detHistVars, loopHistVars>>

NextHelper ==
    \/ \E valid \in BOOLEAN, dc \in Configs, rc \in Configs : Construct(valid, dc, rc)
    \/ StartWithReader
    \/ StartNoReader
    \/ \E e \in LoopEvents :
           /\ h_pc = "constructed"
           /\ reader_cfg # "None"
           /\ PutEvent(e)
           /\ UNCHANGED <<detVars, loopVars, extVars>>
    \/ \E d \in 0..1 : now + d <= FirstWindow /\ TickOk(d)
    \/ TickSettingsFail
    \/ TickSwitchFail
    \/ TickLabelFail
    \/ \E d \in 0..1 : now + d <= FirstWindow /\ TickNoReader(d)
    \/ \E ok \in SUBSET Scenes : \E seen \in SUBSET ok :
           /\ w_alive
           /\ WorkerRunOneLoop(ok, seen)
           /\ UNCHANGED <<detHistVars, aggVars, loopVars, extVars>>

SpecHelper == Init /\ [][NextHelper]_vars


(***************************************************************************)
(* The way out of start(): KeyboardInterrupt, the final label, the stop of *)
(* the two threads; the worker thread step by step with its signal check.  *)
(***************************************************************************)
\* a main thread that KeyboardInterrupt stops wherever it is
RunningAlways == TRUE

\* the main thread is in the while loop of start() (lines 208-215)
Running == h_pc = "constructed" /\ state = "IDLE"

\* everything but the stream helper's own state, the threads and the queues
stopRest == <<aggVars, codecVars, recvVars, sessVars, runVars, drainVars, ctorVars>>

\* KeyboardInterrupt is raised inside _run_one_loop (lines 210-215): the
\* main thread leaves whatever call it was in
Interrupt ==
    /\ Running
    /\ h_pc' = "exit"
    /\ l_pc' = "idle"
    /\ UNCHANGED <<h_exc, det_cfg, reader_cfg, thrVars, w_pc, w_data, l_data,
                   sub_seq, in_tags, taken_tag, out_tags, delivered_tag,
                   detVars, loopVars, stopRest>>

\* _transit_to_exit() and _set_state_label() (lines 216-217, 232-236)
TransitToExit ==
    /\ h_pc = "exit"
    /\ state' = "EXIT"
    /\ h_pc' = "stop_det"
    /\ UNCHANGED <<h_exc, det_cfg, reader_cfg, thrVars, qVars, detVars,
                   now, next_vote_time, next_detect_time,
                   last_detect_vote_results, latest_scene_names,
                   offline_scene_names, current_scene, obs_calls,
                   loopHistVars, stopRest>>

\* detection_processor.stop_thread() sets the signal (line 93)
StopDetection ==
    /\ h_pc = "stop_det"
    /\ d_exit' = TRUE
    /\ h_pc' = "join_det"
    /\ UNCHANGED <<h_exc, det_cfg, reader_cfg, w_alive, w_checked, w_idle, b_exit,
                   b_alive, qVars, detVars, loopVars, stopRest>>

\* worker_thread.join() returns (line 97); start() goes on to line 219
JoinDetection ==
    /\ h_pc = "join_det"
    /\ ~w_alive
    /\ h_pc' = IF reader_cfg # "None" THEN "stop_reader" ELSE "returned"
    /\ UNCHANGED <<h_exc, det_cfg, reader_cfg, thrVars, qVars, detVars,
                   loopVars, stopRest>>

\* interact_reader.stop_thread() sets the signal
\* (bili_interact_reader.py, line 129)
StopReader ==
    /\ h_pc = "stop_reader"
    /\ b_exit' = TRUE
    /\ h_pc' = "join_reader"
    /\ UNCHANGED <<h_exc, det_cfg, reader_cfg, d_exit, w_alive, w_checked, w_idle,
                   b_alive, qVars, detVars, loopVars, stopRest>>

\* client_thread.join() returns (bili_interact_reader.py, line 133)
JoinReader ==
    /\ h_pc = "join_reader"
    /\ ~b_alive
    /\ h_pc' = "returned"
    /\ UNCHANGED <<h_exc, det_cfg, reader_cfg, thrVars, qVars, detVars,
                   loopVars, stopRest>>

\* a signal check that never sees the signal
StopRequestedNever == FALSE

\* self.exit_signal.is_set() (detection_processor.py, line 178)
StopRequested == d_exit

\* the check at the start of an iteration (lines 177-184): StopLoop ends
\* run() (lines 224-227)
WorkerCheck ==
    /\ w_alive
    /\ w_pc = "take"
    /\ ~w_checked
    /\ IF StopRequested
       THEN w_alive' = FALSE /\ UNCHANGED w_checked
       ELSE w_checked' = TRUE /\ UNCHANGED w_alive
    /\ UNCHANGED <<d_exit, w_idle, b_exit, b_alive, helpVars, qVars, detVars,
                   loopVars, stopRest>>

\* input_queue.get(timeout=self.interval) finds a job (line 186)
WorkerGet(ok, seen) ==
    /\ w_alive
    /\ w_checked
    /\ WorkerTake(ok, seen)
    /\ UNCHANGED <<thrVars, helpVars, loopVars, stopRest>>

\* the interval passes without a job: Empty, the iteration ends (line 188)
WorkerTimeout ==
    /\ w_alive
    /\ w_checked
    /\ w_pc = "take"
    /\ input_queue = <<>>
    /\ w_checked' = FALSE
    /\ w_idle' = TRUE
    /\ UNCHANGED <<d_exit, w_alive, b_exit, b_alive, helpVars, qVars,
                   detVars, loopVars, stopRest>>

\* force_put(self.output_queue, mview_results) (line 218), step by step;
\* its put ends the iteration
WorkerPublish ==
    /\ w_alive
    /\ \/ WorkerFull /\ UNCHANGED <<w_checked, w_idle>>
       \/ WorkerEvict /\ UNCHANGED <<w_checked, w_idle>>
       \/ WorkerPut /\ w_checked' = FALSE /\ w_idle' = FALSE
    /\ UNCHANGED <<d_exit, w_alive, b_exit, b_alive, helpVars, loopVars,
                   stopRest>>

\* the client thread ends: run() has no other end than an exception of one
\* of its tasks (bili_client.py, lines 44-54); exit_signal is read nowhere
ClientEnds ==
    /\ b_alive
    /\ b_alive' = FALSE
    /\ UNCHANGED <<d_exit, w_alive, w_checked, w_idle, b_exit, helpVars, qVars,
                   detVars, loopVars, stopRest>>

\* the ticks, as far as the queues see them
LoopQueueStep ==
    /\ Running
    /\ \/ LoopSubmit(KeysIn(obs_scenes, Scenes))
       \/ LoopFull
       \/ LoopEvict
       \/ LoopPut
       \/ LoopPoll
    /\ UNCHANGED <<aggVars, loopVars, codecVars, recvVars, sessVars, restVars>>

MainExit ==
    TransitToExit \/ StopDetection \/ JoinDetection \/ StopReader \/ JoinReader

WorkerThread ==
    \/ WorkerCheck
    \/ \E seen \in {{}, Scenes} : WorkerGet(Scenes, seen)
    \/ WorkerTimeout
    \/ WorkerPublish

NextStop ==
    \/ \E dc \in Configs, rc \in Configs : Construct(TRUE, dc, rc)
    \/ StartWithReader
    \/ StartNoReader
    \/ LoopQueueStep
    \/ Interrupt
    \/ MainExit
    \/ WorkerThread
    \/ ClientEnds

SpecStop == Init /\ [][NextStop]_vars

\* the main thread and the worker thread are scheduled: a thread that can
\* take a step eventually takes one
SpecStopFair == SpecStop /\ WF_vars(MainExit) /\ WF_vars(WorkerThread)


(***************************************************************************)
(* The life of the stream helper as tools/main.py drives it: constructed,  *)
(* start() called once, ticks, KeyboardInterrupt, the way out.             *)
(***************************************************************************)
NextLife ==
    \/ \E rc \in Configs : Construct(TRUE, "cfg", rc)
    \/ StartWithReader
    \/ StartNoReader
    \/ \E e \in LoopEvents :
           /\ b_alive
           /\ PutEvent(e)
           /\ UNCHANGED <<detVars, loopVars, extVars>>
    \/ \E d \in 0..1 : now + d <= FirstWindow /\ TickOk(d)
    \/ \E d \in 0..1 : now + d <= FirstWindow /\ TickNoReader(d)
    \/ \E seen \in SUBSET Scenes :
           /\ w_alive
           /\ ~StopRequested
           /\ WorkerRunOneLoop(Scenes, seen)
           /\ UNCHANGED <<detHistVars, aggVars, loopVars, extVars>>
    \/ StopRequested /\ WorkerCheck
    \/ Interrupt
    \/ MainExit
    \/ ClientEnds

SpecLife == Init /\ [][NextLife]_vars


(***************************************************************************)
(* The receive loop as the producer of the aggregator's events.            *)
(***************************************************************************)
\* the str that json.loads gives for a one-byte text of the model
Utf8Decode(byte) ==
    CASE byte = 97 -> "a"
      [] byte = 98 -> "b"
      [] byte = 48 -> "0"
      [] byte = 49 -> "1"

\* inter_data as _load_new_msg reads it: the keys recv_loop has put into
\* clean_data (bili_client.py, line 179), with their str values
InterData(clean_data) ==
    [uid |-> Utf8Decode(clean_data.uid), uname |-> Utf8Decode(clean_data.uname),
     msg |-> <<Utf8Decode(clean_data.msg)>>]

\* inter_data['medal_name'] (line 109) is reached for a single letter of a
\* user who has not voted, and raises KeyError when the key is missing
MedalNameMissing(st, inter_data) ==
    /\ IsSingleLetter(CleanMsg(inter_data.msg))
    /\ inter_data.uid \notin st.voted_users
    /\ "medal_name" \notin DOMAIN inter_data

\* _load_new_msg on the events of the receive loop: the cache, what is left
\* in the queue, and the exception that ended the call. Before line 109
\* raises, lines 101-102 have entered the letter and line 106 the user.
RECURSIVE LoadProduced(_, _)
LoadProduced(st, q) ==
    IF q = <<>> THEN [st |-> st, rest |-> <<>>, exc |-> "None"]
    ELSE LET inter_data == InterData(Head(q))
             key == CleanMsg(inter_data.msg)[1]
         IN  IF MedalNameMissing(st, inter_data)
             THEN [st |-> [votes |-> IF key \in DOMAIN st.votes THEN st.votes
                                     ELSE DictSet(st.votes, key, 0),
                           voted_users |-> st.voted_users \cup {inter_data.uid}],
                   rest |-> Tail(q), exc |-> "KeyError"]
             ELSE LoadProduced(RecordEvent(st, inter_data), Tail(q))

\* get_vote_results() in a tick (stream_helper.py, line 160) on what the
\* receive loop has enqueued; an exception leaves the tick and start()
GetProducedVotes ==
    /\ h_pc = "constructed"
    /\ state = "IDLE"
    /\ LET r == LoadProduced(Cache, interact_queue)
       IN  /\ interact_queue' = r.rest
           /\ heap' = [heap EXCEPT ![votes] = r.st.votes]
           /\ voted_users' = r.st.voted_users
           /\ IF r.exc # "None"
              THEN Crash(r.exc)
              ELSE UNCHANGED <<helpVars, runVars, drainVars, thrVars, ctorVars, qVars,
                               codecVars, recvVars, sessVars>>
    /\ UNCHANGED <<votes, held, held_snap, histVars, detVars, loopVars>>

NextFeed ==
    \/ Construct(TRUE, "cfg", "cfg")
    \/ StartWithReader
    \/ b_alive /\ RunTasks
    \/ GetProducedVotes

SpecFeed == Init /\ [][NextFeed]_vars


(***************************************************************************)
(* get_vote_results step by step against the receive loop's enqueues.      *)
(***************************************************************************)
\* the events the history follows
MaxPuts == 3

\* the chat frames, and one whose message is no letter
DrainFrames == ChatFrames \cup { Pack(FrameOf(5, 0, 0, <<"D", "0", "1">>)) }

\* self.interact_queue.qsize() (line 94)
QSize(q) == Len(q)

\* the receive loop enqueues, at once or after its put has waited; the
\* history notes the event that entered the queue
ProducerStep ==
    /\ b_alive
    /\ Len(put_log) < MaxPuts
    /\ \/ \E recvBuf \in DrainFrames : RecvFrame(recvBuf)
       \/ PutAfterWait
       \/ PutTimesOut
    /\ put_log' = IF Len(interact_queue') > Len(interact_queue)
                  THEN Append(put_log, interact_queue'[Len(interact_queue')])
                  ELSE put_log
    /\ UNCHANGED <<g_pc, g_n, g_left, rec_log, sessVars, runVars, helpVars,
                   thrVars, ctorVars, detVars, loopVars, qVars, codecVars>>

\* get_vote_results() is called (stream_helper.py, line 160):
\* n_data = self.interact_queue.qsize()
LoadStart ==
    /\ h_pc = "constructed"
    /\ state = "IDLE"
    /\ g_pc = "idle"
    /\ g_n' = QSize(interact_queue)
    /\ g_left' = QSize(interact_queue)
    /\ g_pc' = "loading"
    /\ UNCHANGED <<put_log, rec_log, aggVars, detVars, loopVars, qVars,
                   codecVars, recvVars, sessVars, runVars, helpVars, thrVars,
                   ctorVars>>

\* one iteration of 'for _ in range(n_data)' (lines 95-116): get() returns
\* when an item is present, and waits otherwise
LoadGet ==
    /\ h_pc = "constructed"
    /\ g_pc = "loading"
    /\ g_left > 0
    /\ interact_queue # <<>>
    /\ LET r == LoadProduced(Cache, <<Head(interact_queue)>>)
       IN  /\ interact_queue' = Tail(interact_queue)
           /\ heap' = [heap EXCEPT ![votes] = r.st.votes]
           /\ voted_users' = r.st.voted_users
           /\ IF r.exc # "None"
              THEN /\ Crash(r.exc)
                   /\ UNCHANGED <<g_left, rec_log>>
              ELSE /\ g_left' = g_left - 1
                   /\ rec_log' = Append(rec_log, Head(interact_queue))
                   /\ UNCHANGED <<helpVars, runVars, thrVars, ctorVars, qVars,
                                  codecVars, recvVars, sessVars>>
    /\ UNCHANGED <<g_pc, g_n, put_log, votes, held, held_snap, histVars,
                   detVars, loopVars>>

\* the loop is over: return self.votes (line 125)
LoadReturn ==
    /\ h_pc = "constructed"
    /\ g_pc = "loading"
    /\ g_left = 0
    /\ g_pc' = "merged"
    /\ UNCHANGED <<g_n, g_left, put_log, rec_log, aggVars, detVars, loopVars,
                   qVars, codecVars, recvVars, sessVars, runVars, helpVars,
                   thrVars, ctorVars>>

\* the rest of the tick: at the deadline interact_reader.reset()
\* (stream_helper.py, line 178)
TickRest(boundary) ==
    /\ h_pc = "constructed"
    /\ g_pc = "merged"
    /\ g_pc' = "idle"
    /\ IF boundary THEN Reset ELSE UNCHANGED <<aggVars>>
    /\ UNCHANGED <<g_n, g_left, put_log, rec_log, histVars, detVars, loopVars,
                   qVars, codecVars, recvVars, sessVars, runVars, helpVars,
                   thrVars, ctorVars>>

NextDrain ==
    \/ Construct(TRUE, "cfg", "cfg")
    \/ StartWithReader
    \/ ProducerStep
    \/ LoadStart
    \/ LoadGet
    \/ LoadReturn
    \/ \E boundary \in BOOLEAN : TickRest(boundary)

SpecDrain == Init /\ [][NextDrain]_vars


(***************************************************************************)
(* The worker thread with captures that raise.                             *)
(***************************************************************************)
\* the sources of a job that the loop over rtsp_urls.items() reads before
\* it comes to key
RECURSIVE Before(_, _)
Before(job, key) ==
    IF job = <<>> \/ Head(job) = key THEN <<>>
    ELSE <<Head(job)>> \o Before(Tail(job), key)

\* an iteration in which read_img_from_rtsp (line 196), cv2.rotate or the
\* detection (lines 207-210) raises at source bad: the sources before it
\* are processed, lines 194-195 enter the counter of bad, the exception
\* leaves _run_one_loop before force_put and, not being StopLoop, leaves
\* run() (lines 220-227)
WorkerCaptureRaises(ok, bad) ==
    /\ w_alive
    /\ input_queue # <<>>
    /\ LET job == Head(input_queue)
           st  == ProcessJob([count |-> rtsp_failure_count,
                              backlist |-> rtsp_backlist,
                              results |-> EmptyDict], Before(job, bad), ok, {})
       IN  /\ bad \in Range(job)
           /\ bad \notin Range(st.backlist)
           /\ ok \subseteq Range(Before(job, bad))
           /\ input_queue' = Tail(input_queue)
           /\ rtsp_failure_count' =
                  IF bad \in DOMAIN st.count THEN st.count
                  ELSE DictSet(st.count, bad, 0)
           /\ rtsp_backlist' = st.backlist
    /\ w_alive' = FALSE
    /\ UNCHANGED <<output_queue, detHistVars, d_exit, w_checked, w_idle,
                   b_exit, b_alive, helpVars, runVars, drainVars, ctorVars, qVars,
                   codecVars, recvVars, sessVars, aggVars, loopVars>>

NextWorker ==
    \/ Construct(TRUE, "cfg", "None")
    \/ \E job \in Jobs :
           /\ h_pc = "constructed"
           /\ PutMviewUrls(job)
           /\ UNCHANGED <<aggVars, loopVars, extVars>>
    \/ \E ok \in SUBSET Scenes : \E seen \in SUBSET ok :
           /\ w_alive
           /\ WorkerRunOneLoop(ok, seen)
           /\ UNCHANGED <<detHistVars, aggVars, loopVars, extVars>>
    \/ \E ok \in SUBSET Scenes : \E bad \in Scenes : WorkerCaptureRaises(ok, bad)
    \/ /\ h_pc = "constructed"
       /\ GetMviewResults
       /\ UNCHANGED <<aggVars, loopVars, extVars>>

SpecWorker == Init /\ [][NextWorker]_vars


(***************************************************************************)
(* The worker's iterations, with and without a job.                        *)
(***************************************************************************)
\* an iteration that finds a job, from the signal check to force_put
WorkerJob(ok, seen) ==
    /\ w_alive
    /\ w_checked
    /\ WorkerRunOneLoop(ok, seen)
    /\ WorkerHistory(ok)
    /\ WorkerCaptures(ok, seen)
    /\ w_checked' = FALSE
    /\ w_idle' = FALSE
    /\ UNCHANGED <<d_exit, w_alive, b_exit, b_alive, helpVars, runVars,
                   drainVars, ctorVars, qVars, codecVars, recvVars, sessVars,
                   aggVars, loopVars>>

NextPublish ==
    \/ Construct(TRUE, "cfg", "None")
    \/ \E job \in Jobs :
           /\ h_pc = "constructed"
           /\ PutMviewUrls(job)
           /\ UNCHANGED <<aggVars, loopVars, extVars>>
    \/ WorkerCheck
    \/ \E ok \in SUBSET Scenes : \E seen \in SUBSET ok : WorkerJob(ok, seen)
    \/ WorkerTimeout
    \/ /\ h_pc = "constructed"
       /\ GetMviewResults
       /\ UNCHANGED <<aggVars, loopVars, extVars>>

SpecPublish == Init /\ [][NextPublish]_vars

(***************************************************************************)
(* Properties of the vote aggregator.                                      *)
(***************************************************************************)
\* the tally: the dict self.votes names
Tally == heap[votes]

\* the weight the rules give each voter of the model: U1 wears a medal that
\* is not the designated one (base 1), U2 the designated medal at level 2
\* (1 + 2), U3 is a super user without medal (1 + 10)
WeightOf(u) == IF u = "U1" THEN 1 ELSE IF u = "U2" THEN 1 + 2 ELSE 1 + 10

RECURSIVE SumWeights(_)
SumWeights(S) ==
    IF S = {} THEN 0
    ELSE LET u == CHOOSE x \in S : TRUE
         IN  WeightOf(u) + SumWeights(S \ {u})

VotersOf(k) == { u \in Users : first_vote[u] = k }

\* a step that drains a queue holding only events of voters who have voted
DrainsOnlyDuplicates ==
    /\ interact_queue # <<>>
    /\ interact_queue' = <<>>
    /\ \A i \in 1..Len(interact_queue) : interact_queue[i].uid \in voted_users

\* C1: an event of a voter who is already in the voted set changes nothing:
\* the tally (its keys and its scores) and the voted set are the same before
\* and after it is recorded.
C1_DuplicateChangesNothing ==
    [][DrainsOnlyDuplicates =>
          heap'[votes'] = heap[votes] /\ voted_users' = voted_users]_vars

\* C2: in a round every voter is counted once, toward the letter of the
\* first vote: the voted set is the set of voters with a first vote, every
\* score is the sum of the weights of the voters whose first vote was that
\* letter, and the scores add up to the weights of the voted set.
C2_FirstVoteCountedOnce ==
    /\ voted_users = { u \in Users : first_vote[u] # "none" }
    /\ DOMAIN Tally \subseteq Letters
    /\ \A k \in Letters : DictGet(Tally, k, 0) = SumWeights(VotersOf(k))
    /\ DictSum(Tally) = SumWeights(voted_users)

\* a voter has voted for one letter, and another letter sent afterwards by a
\* voter who had voted is in the tally without any weight
C2_Witness ==
    \E u \in voted_users : \E k \in DOMAIN Tally :
        /\ k # first_vote[u]
        /\ Tally[k] = 0
        /\ Tally[first_vote[u]] = WeightOf(u)

\* C3: an accepted vote adds 1, plus the medal level only for the designated
\* medal, plus 10 only for a super user: the only voter of a letter leaves
\* 1 (U1, another medal of level 3), 3 (U2, designated medal of level 2) or
\* 11 (U3, super user) as its score.
C3_WeightOfVote ==
    \A k \in Letters : \A u \in Users :
        VotersOf(k) = {u} =>
            Tally[k] = (IF u = "U1" THEN 1 ELSE IF u = "U2" THEN 3 ELSE 11)

C3_Witness ==
    /\ VotersOf("a") = {"U1"} /\ Tally["a"] = 1
    /\ VotersOf("b") = {"U3"} /\ Tally["b"] = 11

\* C4: a message that is not one letter after strip() and lower() is
\* ignored: recording it leaves the tally and the voted set as they are, its
\* sender is not marked as having voted and is counted when voting later;
\* 'A ' and 'a' are the same option.
C4_NonLetterIgnored ==
    /\ \A e \in Events :
           e.msg \in OtherMessages => RecordEvent(Cache, e) = Cache
    /\ \A u \in ignored_first :
           IF first_vote[u] = "none"
           THEN u \notin voted_users
           ELSE /\ u \in voted_users
                /\ Tally[first_vote[u]] = SumWeights(VotersOf(first_vote[u]))
    /\ \A u \in Users :
           RecordEvent(Cache, EventOf(u, <<"A", " ">>))
               = RecordEvent(Cache, EventOf(u, <<"a">>))
    /\ DOMAIN Tally \subseteq {"a", "b"}

\* a voter whose message was ignored has voted afterwards, and counts
C4_Witness ==
    \E u \in ignored_first :
        /\ u \in voted_users
        /\ Tally[first_vote[u]] = WeightOf(u)

\* every voter of the voted set voted in the round the last reset started
RoundOnly ==
    /\ voted_users = { u \in Users : first_vote[u] # "none" }
    /\ DictSum(Tally) = SumWeights({ u \in Users : first_vote[u] # "none" })

\* C5: reset() leaves an empty tally and an empty voted set, whatever they
\* were (so a second reset leaves them empty too), and what is recorded
\* afterwards counts toward the new round only.
C5_ResetIsolatesRounds ==
    /\ [][Reset => (heap'[votes'] = EmptyDict /\ voted_users' = {})]_vars
    /\ []RoundOnly

\* a voter of the round that the last reset ended has voted again, and the
\* scores are those of the new round alone
C5_Witness ==
    /\ \E u \in prev_voted : u \in voted_users
    /\ \E u \in prev_voted : u \notin voted_users
    /\ DictSum(Tally) = SumWeights(voted_users)

\* C6: the dict get_vote_results returned keeps the content it had when it
\* was returned, whatever is recorded or reset afterwards.
C6_ReturnedTallyIsSnapshot ==
    held # 0 => heap[held] = held_snap

(***************************************************************************)
(* Properties of the orchestration loop.                                   *)
(***************************************************************************)
\* two options share a combined score that no option exceeds
TopTie(sc) ==
    \E k1, k2 \in VoteKeys :
        /\ k1 # k2
        /\ sc[k1] = sc[k2]
        /\ \A k \in VoteKeys : sc[k] <= sc[k1]

\* the greatest of the scores of a non-empty set of vote keys
TopScore(sc, K) == CHOOSE v \in { sc[k] : k \in K } : \A k \in K : sc[k] <= v

\* the key of K that comes first in the sorted order of the vote keys
EarliestKey(K) ==
    SortedVoteKeys[CHOOSE i \in 1..Len(SortedVoteKeys) :
                      /\ SortedVoteKeys[i] \in K
                      /\ \A j \in 1..(i - 1) : SortedVoteKeys[j] \notin K]

\* the vote keys whose scene is among the reachable ones
ReachableKeys(reach) == { k \in VoteKeys : SceneOfKey(k) \in reach }

TallyFirstWindow == [k \in {"a", "b"} |-> 1]

TallySecondWindow == [k \in {"b"} |-> 11]

C9_LeaderIsEarliestGreatest ==
    LET sc == last_tick.scores
        K  == ReachableKeys(last_tick.reach)
    IN  last_tick.leader =
            IF K = {} THEN "None"
            ELSE IF TopScore(sc, K) = 0 THEN "None"
            ELSE SceneOfKey(EarliestKey({ k \in K : sc[k] = TopScore(sc, K) }))

\* a tick found votes for an option whose scene was unreachable, and the
\* other option led
C9_Witness ==
    /\ last_tick.scores["a"] > 0
    /\ "A" \notin last_tick.reach
    /\ last_tick.leader = "B"

(***************************************************************************)
(* Properties of the detection worker.                                     *)
(***************************************************************************)
\* C10: with a tolerance of 3, a source whose capture failed in 3 jobs in a
\* row is in the blacklist from the third failure on, and it is a key of no
\* result published from then on (nor of a queued one), also when its
\* capture would succeed again.
C10_BlacklistedAfterThreeFailures ==
    \A s \in doomed :
        /\ s \in Range(rtsp_backlist)
        /\ s \notin DOMAIN last_published
        /\ \A i \in 1..Len(output_queue) : s \notin DOMAIN output_queue[i]

\* a source failed three jobs in a row, the job after that found its camera
\* working again, and the result of that job names another source only
C10_Witness ==
    \E s \in doomed :
        /\ fail_streak[s] = 0
        /\ s \notin DOMAIN last_published
        /\ DOMAIN last_published # {}

\* C11: the blacklist is monotonic: a source in the blacklist stays in it at
\* every step, and no later job invokes its capture (a capture either
\* raises the failure count of its source or records a result for it).
C11_BlacklistMonotonic ==
    [][\A s \in Range(rtsp_backlist) :
          /\ s \in Range(rtsp_backlist')
          /\ rtsp_failure_count'[s] = rtsp_failure_count[s]
          /\ s \notin DOMAIN last_published']_vars

\* a blacklisted source was named by a later job while its camera worked,
\* and its failure count stands where the blacklisting left it
C11_Witness ==
    \E s \in Range(rtsp_backlist) :
        /\ fail_streak[s] = 0
        /\ rtsp_failure_count[s] = rtsp_tolerance

C12_ResultQueueLatestWins ==
    /\ Len(output_queue) <= 1
    /\ w_pc = "put" => CanPut(output_queue, output_queue_len)
    /\ (w_pc = "take" /\ out_tags # <<>>) => out_tags = <<taken_tag>>
    /\ \A i \in 1..Len(out_tags) : out_tags[i] > delivered_tag

\* two results were published and none polled: the first was discarded and
\* the second is the queued one
C12_Witness ==
    /\ w_pc = "take"
    /\ taken_tag = 2
    /\ delivered_tag = 0
    /\ out_tags = <<2>>

\* C13: at most one job is pending in the input queue, the loop's put
\* finds room whenever it is reached, the job pending when a submission has
\* completed is the most recently submitted one, and the worker never
\* takes a job older than one it took before.
C13_JobQueueLatestWins ==
    /\ Len(input_queue) <= 1
    /\ l_pc = "put" => CanPut(input_queue, input_queue_len)
    /\ (l_pc = "idle" /\ in_tags # <<>>) => in_tags = <<sub_seq>>
    /\ \A i \in 1..Len(in_tags) : in_tags[i] > taken_tag

\* two jobs were submitted and none taken: the second replaced the first
C13_Witness ==
    /\ l_pc = "idle"
    /\ sub_seq = 2
    /\ taken_tag = 0
    /\ in_tags = <<2>>
    /\ input_queue = <<l_data>>

(***************************************************************************)
(* Properties of the frame codec.                                          *)
(***************************************************************************)
\* the buffer is no frame: shorter than a header, or its total length is
\* negative or above the maximum
Malformed(buf) ==
    \/ Len(buf) < headerLen
    \/ UnpackInt(Slice(buf, 0, 4)) < 0
    \/ UnpackInt(Slice(buf, 0, 4)) > maxBody

\* C16: for every operation code and every body of at most maxBody
\* characters, unpacking the packed frame yields the total length, header
\* length, version, operation, sequence id and body of the packed frame.
C16_RoundTrip ==
    (c_phase = "decoded" /\ c_tamper = "none"
        /\ Len(c_frame.body.val) <= maxBody)
        => /\ c_obj.packetLen = PacketLenOf(c_frame)
           /\ c_obj.headerLen = c_frame.headerLen
           /\ c_obj.ver = c_frame.ver
           /\ c_obj.op = c_frame.op
           /\ c_obj.seq = c_frame.seq
           /\ c_obj.body.type = "bytes"
           /\ c_obj.body.val = Encode(c_frame.body.val)

\* C17: unpacking a buffer that is no frame reports an error: what unpack
\* returns differs from what it returns for a frame, and the object does
\* not carry the operation of the rejected buffer.
C17_DecodeReportsError ==
    (c_phase = "decoded" /\ Malformed(c_buf))
        => /\ c_ret # "None"
           /\ c_obj.op = NewProto.op

(***************************************************************************)
(* Properties of the receive loop.                                         *)
(***************************************************************************)
\* C14: the receive loop never waits on the event queue: an event that
\* finds the queue full is dropped at once, it is not enqueued later, and
\* the queue never holds more events than its capacity.
C14_FullQueueDropsAtOnce ==
    /\ r_pc # "putting"
    /\ ~r_late
    /\ Len(interact_queue) <= interact_queue_len

\* C18: a buffer that is no frame does not end the receive loop.
C18_MalformedFrameSurvived == r_last = "malformed" => r_alive

(***************************************************************************)
(* Properties of the session client.                                       *)
(***************************************************************************)
\* the response carries no session data
Transient(data) == "data" \in DOMAIN data /\ RaisesTypeError(data)

CarriesSession(data) == "data" \in DOMAIN data /\ ~RaisesTypeError(data)

\* C19: get_websocket_info makes at most 5 start-session calls; a call is
\* followed by another only when its response carries no session data; the
\* address and auth payload returned are those of the first response with
\* session data; and when all 5 responses carry no session data it raises
\* and returns no address.
C19_SessionBootstrap ==
    /\ Len(s_log) <= 5
    /\ \A i \in 1..(Len(s_log) - 1) : Transient(s_log[i])
    /\ s_info # None
           => /\ s_log # <<>>
              /\ CarriesSession(s_log[Len(s_log)])
              /\ s_info[1] =
                     <<s_log[Len(s_log)].data[1].websocket_info.wss_link[1],
                       s_log[Len(s_log)].data[1].websocket_info.auth_body>>
    /\ (s_log # <<>> /\ CarriesSession(s_log[Len(s_log)])) => s_info # None
    /\ (Len(s_log) = 5 /\ \A i \in 1..5 : Transient(s_log[i]))
           => /\ s_info = None
              /\ s_pc \in {"start", "raised"}
              /\ s_pc = "raised" => s_exc = "ValueError"

C19_Witness ==
    /\ Len(s_log) = 5
    /\ \A i \in 1..5 : Transient(s_log[i])
    /\ s_pc = "raised"

\* C20: the session client goes from session obtained to connected to
\* authenticated to running: the first buffer sent on the connection is the
\* AUTH frame (operation 7) with the auth payload, the three tasks start
\* only after the auth reply was received, and start whatever status code
\* the reply carries; no heartbeat frame is sent before the AUTH frame.
C20_SessionOrder ==
    /\ s_pc \in {"connected", "auth_sent", "running"} => s_info # None
    /\ s_sent # <<>>
           => /\ s_info # None
              /\ Unpack(NewProto, s_sent[1]).op = 7
              /\ Unpack(NewProto, s_sent[1]).body.val = Encode(s_info[1][2])
    /\ \A i \in 1..Len(s_sent) : Unpack(NewProto, s_sent[i]).op = 2 => i > 1
    /\ s_reply # None => s_sent # <<>>
    /\ s_tasks # {} => s_reply # None
    /\ s_tasks \in {{}, {"recv_loop", "send_heartbeat", "app_send_heartbeat"}}
    /\ (s_reply # None /\ ~AuthJson(Unpack(NewProto, s_reply[1]).body).error)
           => /\ s_pc = "running"
              /\ s_tasks = {"recv_loop", "send_heartbeat", "app_send_heartbeat"}

C20_Witness ==
    /\ s_pc = "running"
    /\ AuthJson(Unpack(NewProto, s_reply[1]).body).code # 0
    /\ Len(s_sent) = 1 + MaxBeats


\* C29: the failure counter counts failures in a row: a source is in the
\* blacklist only after rtsp_tolerance capture failures in a row.
C29_BlacklistOnlyAfterStreak == \A s \in Range(rtsp_backlist) : s \in doomed


(***************************************************************************)
(* Properties of the tick of the orchestration loop.                       *)
(***************************************************************************)
\* C27: a tick that starts at or after the vote deadline resets the
\* aggregator and sets the deadline to tick start + vote interval, later
\* than the tick start; with a leading option it calls set_current_scene
\* once, with the leader's scene, and forgets the detection votes; without
\* one it calls nothing and keeps the detection votes.
C27_BoundaryTick ==
    [][((\E d \in 0..1 : RunOneLoop(d)) /\ next_vote_time <= now)
          => /\ heap'[votes'] = EmptyDict
             /\ voted_users' = {}
             /\ next_vote_time' = now + vote_interval
             /\ next_vote_time' > now
             /\ IF TickTarget # "None"
                THEN /\ obs_calls' = obs_calls + 1
                     /\ current_scene' = TickTarget
                     /\ last_detect_vote_results' = None
                ELSE /\ obs_calls' = obs_calls
                     /\ current_scene' = current_scene
                     /\ last_detect_vote_results' = TickLastDetect]_vars

\* a boundary tick has switched to its leader, a remembered detection vote
\* was among the votes, and it is forgotten
C27_Witness ==
    /\ last_tick.boundary
    /\ last_tick.switched # "None"
    /\ last_tick.switched = current_scene
    /\ \E k \in VoteKeys : last_tick.scores[k] >= 3
    /\ last_detect_vote_results = None
    /\ heap[votes] = EmptyDict
    /\ next_vote_time > now


\* C28: a tick that finds the result queue empty merges the detection votes
\* of the most recent tick that received a result, unless a scene switch was
\* committed since; a tick that finds a result merges the votes of that
\* result and remembers them; the poll takes the result off the queue and
\* the tick completes in either case.
C28_RememberedDetection ==
    [][(\E d \in 0..1 : RunOneLoop(d))
          => /\ output_queue = <<>>
                   => /\ Tail(TickMsrc) = remembered
                      /\ TickTarget =
                             ConvertVoteResults(<<TickCache.votes>> \o remembered,
                                                latest_scene_names)
                      /\ output_queue' = <<>>
             /\ output_queue # <<>>
                   => /\ Tail(TickMsrc) = Some(DetectVotes(Head(output_queue)))
                      /\ obs_calls' = obs_calls
                            => last_detect_vote_results' =
                                   Some(DetectVotes(Head(output_queue)))
                      /\ output_queue' = Tail(output_queue)]_vars

\* the last tick found no result and merged remembered votes for a scene
C28_Witness ==
    /\ reused
    /\ remembered # None
    /\ \E k \in VoteKeys : VoteSum(remembered, k) = 3
    /\ last_detect_vote_results = remembered


(***************************************************************************)
(* Properties of the stream helper.                                        *)
(***************************************************************************)
\* C23: a mixer call that raises during a tick does not end the loop: the
\* loop is still running afterwards.
C23_MixerFailureSurvived ==
    h_exc = "RuntimeError" => (h_pc = "constructed" /\ state = "IDLE")

\* C24: with detection_proc_cfg None the construction of the stream helper
\* succeeds, without a detection worker, and no job is ever submitted.
C24_NoDetectionConfig ==
    (h_pc # "new" /\ det_cfg = "None" /\ h_exc # "ConnectionError")
        => /\ h_pc # "raised"
           /\ ~w_alive
           /\ input_queue = <<>>

\* C25: without an interact reader no tick ends in an error, the tick at
\* the vote deadline included.
C25_NoReaderTicks ==
    (h_pc # "new" /\ reader_cfg = "None") => h_exc # "AttributeError"


(***************************************************************************)
(* Properties of the stop.                                                 *)
(***************************************************************************)
\* C22: after the stop signal, start() eventually returns, in state EXIT
\* and with both background threads terminated.
C22_StartReturnsAfterStop ==
    (h_pc = "exit")
        ~> (h_pc = "returned" /\ state = "EXIT" /\ ~w_alive /\ ~b_alive)

\* C30: after stop_thread() has set the signal, the worker thread
\* terminates and stop_thread() returns.
C30_WorkerCancellable ==
    (h_pc = "join_det") ~> (~w_alive /\ h_pc # "join_det")

\* the worker has terminated and stop_thread() has returned with a job
\* pending and a result not consumed
C30_Witness ==
    /\ d_exit
    /\ ~w_alive
    /\ h_pc \in {"stop_reader", "join_reader", "returned"}
    /\ input_queue # <<>>
    /\ output_queue # <<>>


(***************************************************************************)
(* Properties of the run of the session client.                            *)
(***************************************************************************)
\* C21: a non-success response to the session heartbeat leaves the receive
\* loop and the connection heartbeat running.
C21_HeartbeatFailureIsolated ==
    [][\A status \in HeartbeatStatuses \ {200} :
           RunHeartbeat(status)
               => /\ {"recv_loop", "send_heartbeat"} \subseteq s_tasks'
                  /\ r_alive']_vars


DetectedScenes(detect_results) ==
    { sc \in DOMAIN detect_results : detect_results[sc] }

\* C32: a tick that receives a detection result in which a source reports
\* the cat moves the state to ACTIVE and requests, in that tick, a switch to
\* a detected source.
C32_DetectionActivates ==
    [][((\E d \in 0..1 : RunOneLoop(d))
            /\ output_queue # <<>>
            /\ DetectedScenes(Head(output_queue)) # {})
        => /\ state' = "ACTIVE"
           /\ obs_calls' = obs_calls + 1
           /\ current_scene' \in DetectedScenes(Head(output_queue))]_vars


(***************************************************************************)
(* Properties of the events the receive loop produces.                     *)
(***************************************************************************)
\* C33: the aggregator's recording of the events the receive loop has
\* enqueued never fails on a missing field.
C33_ProducedEventsRecord == h_exc # "KeyError"


(***************************************************************************)
(* Properties of the worker thread's errors.                               *)
(***************************************************************************)
\* C34: no capture failure ends the worker thread: as long as no stop is
\* requested, a worker that is alive stays alive.
C34_CaptureFailureContained ==
    [][(w_alive /\ ~d_exit) => w_alive']_vars


(***************************************************************************)
(* Properties of the drain against the receive loop.                       *)
(***************************************************************************)
\* C35: every event put on the interact queue is either still in the queue
\* or recorded, once and in the order of the puts.
C35_NoEventLost == put_log = rec_log \o interact_queue

\* C36: a get of the drain always finds an item, and a call of
\* get_vote_results that is over has made the n_data recordings its qsize()
\* announced.
C36_DrainRecordsReported ==
    /\ g_pc = "loading" => g_left <= Len(interact_queue)
    /\ (g_pc = "merged" \/ h_pc = "crashed") => g_left = 0


(***************************************************************************)
(* Properties of the reachable scenes.                                     *)
(***************************************************************************)
\* C37: before any result is consumed every configured scene is reachable;
\* a tick that consumes a result makes the keys of that result the
\* reachable scenes and the others the offline ones, a tick without a
\* result keeps both; the leader and the target of a switch are reachable
\* scenes, whatever the votes.
C37_OnlyReachableScenes ==
    /\ (latest_scene_names = Scenes /\ offline_scene_names = <<>>)
    /\ [][(\E d \in 0..1 : RunOneLoop(d))
            => /\ IF output_queue # <<>>
                  THEN /\ latest_scene_names' = DOMAIN Head(output_queue)
                       /\ Range(offline_scene_names')
                              = Scenes \ DOMAIN Head(output_queue)
                  ELSE UNCHANGED <<latest_scene_names, offline_scene_names>>
               /\ TickTarget \in latest_scene_names' \cup {"None"}
               /\ obs_calls' > obs_calls => current_scene' \in latest_scene_names'
               /\ latest_scene_names' = {} => obs_calls' = obs_calls]_vars

\* the vote window ended with votes for a scene, after an empty result was
\* consumed: no scene is reachable, all are offline, nothing is switched
C37_Witness ==
    /\ last_tick.boundary
    /\ last_tick.reach = {}
    /\ \E k \in VoteKeys : last_tick.scores[k] > 0
    /\ last_tick.switched = "None"
    /\ latest_scene_names = {}
    /\ Range(offline_scene_names) = Scenes


(***************************************************************************)
(* Properties of the published results.                                    *)
(***************************************************************************)
\* C38: an iteration that takes a job publishes a result whose keys are the
\* sources of the job that were not blacklisted before it and whose capture
\* succeeded, with what the detection saw; a source that failed in the job
\* is no key of it; an iteration that finds no job leaves the output queue,
\* the counters and the blacklist as they are.
C38_PublishedKeys ==
    [][/\ Len(input_queue') < Len(input_queue)
           => /\ output_queue' # <<>>
              /\ output_queue'[Len(output_queue')] = last_captured'
              /\ DOMAIN last_captured' \subseteq
                     Range(Head(input_queue)) \ Range(rtsp_backlist)
              /\ \A s \in Range(Head(input_queue)) :
                     fail_streak'[s] > 0
                         => s \notin DOMAIN output_queue'[Len(output_queue')]
              /\ \A s \in Range(Head(input_queue)) \ Range(rtsp_backlist) :
                     fail_streak'[s] = 0
                         => s \in DOMAIN output_queue'[Len(output_queue')]
       /\ (w_checked /\ ~w_checked' /\ input_queue = <<>>)
           => UNCHANGED <<output_queue, rtsp_failure_count, rtsp_backlist>>]_vars

\* a job in which the only capture failed for the first time has published
\* an empty result, and the iteration after it found no job
C38_Witness ==
    /\ w_idle
    /\ output_queue = <<EmptyDict>>
    /\ last_published = EmptyDict
    /\ \E s \in Scenes : fail_streak[s] = 1 /\ s \notin Range(rtsp_backlist)


\* C39: set_current_scene is called only by a tick that starts at or after
\* the vote deadline, once, with a configured scene that is in the latest
\* set of reachable scenes, and after that tick has reset the aggregator;
\* there are never more switches than resets, so that a reset lies between
\* any two switches.
C39_SwitchOnlyAtBoundary ==
    /\ Len(switches) <= Len(tallies)
    /\ [][obs_calls' # obs_calls
             => /\ \E d \in 0..1 : RunOneLoop(d)
                /\ next_vote_time <= now
                /\ obs_calls' = obs_calls + 1
                /\ current_scene' \in Scenes
                /\ current_scene' \in latest_scene_names'
                /\ Len(tallies') = Len(tallies) + 1
                /\ heap'[votes'] = EmptyDict
                /\ voted_users' = {}
                /\ next_vote_time' = now + vote_interval]_vars

\* two switches in two vote windows, the second to a scene the first result
\* of the worker had not reached, with a reset at each of the two deadlines
C39_Witness ==
    /\ Len(switches) = 2
    /\ Len(tallies) = 2
    /\ switches[1] # switches[2]
    /\ latest_scene_names # Scenes
    /\ current_scene = switches[2]
    /\ obs_calls = 2


\* C40: the first item on the interact queue of a reader under construction
\* is 'Ready', put before any chat event, so that the constructor's get
\* returns it and the construction does not end in ValueError.
C40_ReadyBeforeChat ==
    /\ (k_pc = "waiting" /\ interact_queue # <<>>)
           => IsReady(Head(interact_queue))
    /\ k_pc # "ValueError"

====
